---- MODULE Spec2Model ----
(***************************************************************************)
(* Model of the Paperless NGX MCP server's resource-access layer:          *)
(*   src/src/constants.ts             connection config                    *)
(*   src/src/services/paperless-api.ts  validateConfig, getHeaders,        *)
(*                                     parseErrorResponse, formatHttpError,*)
(*                                     apiRequest                          *)
(*   src/src/schemas/index.ts         tool handlers (query builders and    *)
(*                                     the saved-view filter compiler)     *)
(***************************************************************************)
EXTENDS Integers, Sequences, FiniteSets, TLC

(***************************************************************************)
(* JavaScript values.  Every value is a tagged record so that values of    *)
(* different JavaScript types can live in one set.  Objects and mappings   *)
(* are sequences of <<key, value>> pairs in insertion order, keys unique.  *)
(***************************************************************************)
Undef == [t |-> "undefined"]
Null == [t |-> "null"]
Bool(b) == [t |-> "boolean", b |-> b]
Num(n) == [t |-> "number", n |-> n]
Str(s) == [t |-> "string", s |-> s]
Arr(a) == [t |-> "array", a |-> a]
Obj(f) == [t |-> "object", f |-> f]

\* JavaScript truthiness (the `!x`, `if (x)` and `x ? :` tests).
Truthy(v) ==
  CASE v.t = "undefined" -> FALSE
    [] v.t = "null" -> FALSE
    [] v.t = "boolean" -> v.b
    [] v.t = "number" -> v.n # 0
    [] v.t = "string" -> v.s # ""
    [] OTHER -> TRUE

Digit(d) == SubSeq("0123456789", d + 1, d + 1)

RECURSIVE NatToStr(_)
NatToStr(n) == IF n < 10 THEN Digit(n) ELSE NatToStr(n \div 10) \o Digit(n % 10)

\* String(n) for an integer n.
NumToStr(n) == IF n < 0 THEN "-" \o NatToStr(0 - n) ELSE NatToStr(n)

\* String.prototype.includes
Includes(s, sub) ==
  \E i \in 1..(Len(s) - Len(sub) + 1) : SubSeq(s, i, i + Len(sub) - 1) = sub

RECURSIVE JsString(_), JoinFrom(_, _, _)

\* Array.prototype.join(sep) from index i on: null and undefined elements
\* render as the empty string, every other element by String(element).
JoinFrom(a, sep, i) ==
  IF i > Len(a) THEN ""
  ELSE (IF a[i].t \in {"undefined", "null"} THEN "" ELSE JsString(a[i]))
       \o (IF i < Len(a) THEN sep ELSE "")
       \o JoinFrom(a, sep, i + 1)

\* String(v), which is also what a template literal `${v}` produces.
JsString(v) ==
  CASE v.t = "undefined" -> "undefined"
    [] v.t = "null" -> "null"
    [] v.t = "boolean" -> (IF v.b THEN "true" ELSE "false")
    [] v.t = "number" -> NumToStr(v.n)
    [] v.t = "string" -> v.s
    [] v.t = "array" -> JoinFrom(v.a, ",", 1)
    [] OTHER -> "[object Object]"

Join(a, sep) == JoinFrom(a, sep, 1)

RECURSIVE JSONstringify(_), StringifyElems(_, _), StringifyMembers(_, _)

StringifyElems(a, i) ==
  IF i > Len(a) THEN ""
  ELSE JSONstringify(a[i]) \o (IF i < Len(a) THEN "," ELSE "")
       \o StringifyElems(a, i + 1)

StringifyMembers(f, i) ==
  IF i > Len(f) THEN ""
  ELSE "\"" \o f[i][1] \o "\":" \o JSONstringify(f[i][2])
       \o (IF i < Len(f) THEN "," ELSE "") \o StringifyMembers(f, i + 1)

\* JSON.stringify(v) for JSON values (the strings of the model contain no
\* character that needs escaping).
JSONstringify(v) ==
  CASE v.t = "null" -> "null"
    [] v.t = "boolean" -> (IF v.b THEN "true" ELSE "false")
    [] v.t = "number" -> NumToStr(v.n)
    [] v.t = "string" -> "\"" \o v.s \o "\""
    [] v.t = "array" -> "[" \o StringifyElems(v.a, 1) \o "]"
    [] v.t = "object" -> "{" \o StringifyMembers(v.f, 1) \o "}"
    [] OTHER -> "undefined"

\* The JSON values whose serialization a string body of the model may hold.
ParseableValues ==
  { Null, Num(5), Num(0), Bool(TRUE), Bool(FALSE), Str("x"),
    Arr(<<>>), Arr(<<Str("a"), Str("b")>>),
    Obj(<<>>), Obj(<<<<"detail", Str("inner detail")>>>>),
    Obj(<<<<"non_field_errors", Str("oops")>>>>) }

\* JSON.parse(s): the value whose serialization s is, or a SyntaxError.
JSONparse(s) ==
  IF \E v \in ParseableValues : JSONstringify(v) = s
  THEN [ok |-> TRUE, v |-> CHOOSE v \in ParseableValues : JSONstringify(v) = s]
  ELSE [ok |-> FALSE, v |-> Undef]

\* Property read `v[key]` on a non-null value: own properties of an object,
\* undefined on everything else (the keys read are never array indices).
Get(v, key) ==
  IF v.t = "object" /\ \E i \in 1..Len(v.f) : v.f[i][1] = key
  THEN v.f[CHOOSE i \in 1..Len(v.f) : v.f[i][1] = key][2]
  ELSE Undef

\* `v.length`
Length(v) ==
  CASE v.t = "string" -> Num(Len(v.s))
    [] v.t = "array" -> Num(Len(v.a))
    [] OTHER -> Get(v, "length")

\* Object.entries(v)
Entries(v) ==
  CASE v.t = "object" -> v.f
    [] v.t = "array" -> [i \in 1..Len(v.a) |-> <<NumToStr(i - 1), v.a[i]>>]
    [] v.t = "string" ->
         [i \in 1..Len(v.s) |-> <<NumToStr(i - 1), Str(SubSeq(v.s, i, i))>>]
    [] OTHER -> <<>>


(***************************************************************************)
(* Errors.  An error object is its class name, its message and, for        *)
(* PaperlessApiError, the statusCode and responseBody fields.              *)
(***************************************************************************)
JsError(name, message) ==
  [name |-> name, message |-> message, statusCode |-> Undef, responseBody |-> Undef]

PaperlessApiError(message, statusCode, responseBody) ==
  [name |-> "PaperlessApiError", message |-> message,
   statusCode |-> statusCode, responseBody |-> responseBody]

NoError == JsError("", "")

Returned(v) == [kind |-> "return", value |-> v, error |-> JsError("", "")]
Thrown(e) == [kind |-> "throw", value |-> Undef, error |-> e]
Pending == [kind |-> "pending", value |-> Undef, error |-> JsError("", "")]

(***************************************************************************)
(* Error Classifier: parseErrorResponse and formatHttpError.               *)
(***************************************************************************)
IsFieldKey(p) == p[1] \notin {"detail", "error", "non_field_errors"}
IsListOrString(p) == p[2].t \in {"array", "string"}

\* The two .filter() calls of lines 90-91.
RECURSIVE SelectFieldPairs(_)
SelectFieldPairs(f) ==
  IF f = <<>> THEN <<>>
  ELSE (IF IsFieldKey(Head(f)) /\ IsListOrString(Head(f)) THEN <<Head(f)>> ELSE <<>>)
       \o SelectFieldPairs(Tail(f))

FieldErrorText(p) ==
  p[1] \o ": " \o (IF p[2].t = "array" THEN Join(p[2].a, ", ") ELSE JsString(p[2]))

RECURSIVE JoinStrings(_, _)
JoinStrings(ss, sep) ==
  IF ss = <<>> THEN ""
  ELSE IF Len(ss) = 1 THEN ss[1]
  ELSE ss[1] \o sep \o JoinStrings(Tail(ss), sep)

\* Lines 81-96 of parseErrorResponse, on the (parsed) body.
ExtractDetail(error) ==
  IF error.t = "null"
  THEN Thrown(JsError("TypeError", "Cannot read properties of null (reading 'detail')"))
  ELSE IF Truthy(Get(error, "detail")) THEN Returned(Get(error, "detail"))
  ELSE IF Truthy(Get(error, "error")) THEN Returned(Get(error, "error"))
  ELSE LET nfe == Get(error, "non_field_errors")
           fields == SelectFieldPairs(Entries(error))
           fieldErrors == [i \in 1..Len(fields) |-> FieldErrorText(fields[i])]
       IN IF nfe.t \notin {"undefined", "null"} /\ Truthy(Length(nfe))
          THEN IF nfe.t = "array"
               THEN Returned(Str(Join(nfe.a, ", ")))
               ELSE Thrown(JsError("TypeError", "error.non_field_errors.join is not a function"))
          ELSE IF Len(fieldErrors) > 0
               THEN Returned(Str(JoinStrings(fieldErrors, "; ")))
               ELSE Returned(Str(JSONstringify(error)))

parseErrorResponse(body) ==
  IF ~Truthy(body) THEN Returned(Str("Unknown error"))
  ELSE IF body.t = "string"
       THEN IF JSONparse(body.s).ok
            THEN ExtractDetail(JSONparse(body.s).v)
            ELSE Returned(body)
       ELSE ExtractDetail(body)

formatHttpError(status, body) ==
  LET parsed == parseErrorResponse(body)
      detail == JsString(parsed.value)
  IN IF parsed.kind = "throw" THEN parsed
     ELSE Returned(Str(
       CASE status = 400 ->
              "Bad request: " \o detail \o ". Please check your input parameters."
         [] status = 401 ->
              "Authentication failed. Your PAPERLESS_TOKEN may be invalid or expired. "
              \o "Please verify the token in your Paperless NGX settings."
         [] status = 403 ->
              "Permission denied: " \o detail
              \o ". Your API token may lack the required permissions for this operation."
         [] status = 404 ->
              "Resource not found. Please verify the ID exists in Paperless NGX."
         [] status = 409 ->
              "Conflict: " \o detail
              \o ". The resource may have been modified by another user."
         [] status = 413 ->
              "File too large. Please reduce the file size and try again."
         [] status = 429 ->
              "Rate limit exceeded. Please wait a moment before making more requests."
         [] status \in {500, 502, 503, 504} ->
              "Paperless server error (HTTP " \o NumToStr(status)
              \o "). The server may be unavailable or overloaded. Please try again later."
         [] OTHER ->
              "HTTP " \o NumToStr(status) \o " error: " \o detail))

(***************************************************************************)
(* Bounds of the model.                                                    *)
(***************************************************************************)
\* Longest filter_rules list of a saved view.
MaxRules == 2

(***************************************************************************)
(* Program constants (src/src/constants.ts).                               *)
(***************************************************************************)
REQUEST_TIMEOUT_MS == 30000
DEFAULT_PAGE_SIZE == 25
MAX_PAGE_SIZE == 100

\* The values the two environment variables may hold at process start.
EnvUrls == {"", "/", "http://paperless.local", "http://paperless.local/", "paperless.local"}
EnvTokens == {"", "tok123"}

\* .replace(/\/$/, "")
StripTrailingSlash(s) ==
  IF Len(s) > 0 /\ SubSeq(s, Len(s), Len(s)) = "/" THEN SubSeq(s, 1, Len(s) - 1) ELSE s

VARIABLES
  PAPERLESS_URL,    \* connection config: base address
  PAPERLESS_TOKEN,  \* connection config: credential
  pc,               \* where the current apiRequest invocation is suspended
  request,          \* arguments of the current apiRequest invocation
  sent,             \* arguments of the fetch call it issued
  fetchCount,       \* fetch calls issued by the current apiRequest invocation
  response,         \* the Response the fetch resolved with
  timedOut,         \* AbortSignal.timeout(REQUEST_TIMEOUT_MS) has fired
  caught,           \* the error the catch block of apiRequest received
  outcome,          \* how the current apiRequest invocation settled
  log,              \* console.error lines written by the current tool call
  hpc,              \* where the current tool handler is suspended
  tool,             \* the tool being handled and its validated input
  apiParams,        \* the query-parameter mapping the handler built
  view,             \* the saved view fetched by paperless_execute_saved_view
  toolResult,       \* what the handler returned
  classified,       \* a formatHttpError application: its arguments and result
  ruleIndex,        \* filter rules consumed by the saved-view rule loop
  stdout,           \* console.log lines written since process start
  running,          \* the apiRequest invocation whose locals the call variables hold
  frames            \* the locals of the suspended apiRequest invocations

config == <<PAPERLESS_URL, PAPERLESS_TOKEN>>
callVars == <<pc, request, sent, fetchCount, response, timedOut, caught, outcome, log>>
handlerVars == <<hpc, tool, apiParams, view, toolResult>>
unitVars == <<classified, ruleIndex, running, frames>>
vars == <<config, stdout, callVars, handlerVars, unitVars>>

(***************************************************************************)
(* Config Guard and request construction.                                  *)
(***************************************************************************)
\* validateConfig without the credential check.
validateConfigUrlOnly ==
  IF PAPERLESS_URL = ""
  THEN Thrown(PaperlessApiError(
         "PAPERLESS_URL environment variable is not set. "
         \o "Please configure it with your Paperless NGX server URL (e.g., https://paperless.example.com)",
         Undef, Undef))
  ELSE Returned(Undef)

\* (The source writes the arrow of "Settings -> API Tokens" as one character.)
validateConfig ==
  IF PAPERLESS_URL = ""
  THEN Thrown(PaperlessApiError(
         "PAPERLESS_URL environment variable is not set. "
         \o "Please configure it with your Paperless NGX server URL (e.g., https://paperless.example.com)",
         Undef, Undef))
  ELSE IF PAPERLESS_TOKEN = ""
  THEN Thrown(PaperlessApiError(
         "PAPERLESS_TOKEN environment variable is not set. "
         \o "Please configure it with an API token from your Paperless NGX server. "
         \o "You can create one in Settings -> API Tokens.",
         Undef, Undef))
  ELSE Returned(Undef)

getHeaders(contentType) ==
  << <<"Authorization", "Token " \o PAPERLESS_TOKEN>>,
     <<"Content-Type", contentType>>,
     <<"Accept", "application/json">> >>

\* new URL(href) succeeds on an absolute http(s) address and throws a
\* TypeError on a string without a scheme.
URLparses(href) ==
  \E scheme \in {"http://", "https://"} :
    Len(href) > Len(scheme) /\ SubSeq(href, 1, Len(scheme)) = scheme

\* The query built with `if (value)` as the test: it drops 0 and false.
RECURSIVE BuildQueryTruthy(_)
BuildQueryTruthy(params) ==
  IF params = <<>> THEN <<>>
  ELSE (IF Truthy(Head(params)[2])
        THEN << <<Head(params)[1], JsString(Head(params)[2])>> >>
        ELSE <<>>)
       \o BuildQueryTruthy(Tail(params))

\* Lines 163-169: the entries appended to url.searchParams, in order.
RECURSIVE BuildQuery(_)
BuildQuery(params) ==
  IF params = <<>> THEN <<>>
  ELSE LET key == Head(params)[1]
           value == Head(params)[2]
       IN (IF value # Undef /\ value # Null /\ value # Str("")
           THEN << <<key, JsString(value)>> >>
           ELSE <<>>)
          \o BuildQuery(Tail(params))

NoFetch == [url |-> "", query |-> <<>>, method |-> "", headers |-> <<>>, body |-> Undef]
NoResponse ==
  [status |-> 0, contentLength |-> Null, stream |-> "unread",
   body |-> [kind |-> "empty", value |-> Undef, text |-> ""]]
NoClassification == [status |-> 0, body |-> Undef, detail |-> Pending, result |-> Pending]
NoRequest == [method |-> "", endpoint |-> "", params |-> <<>>, body |-> Undef, formData |-> FALSE]

\* The header selection with the multipart exception left out: the JSON
\* headers are sent whatever the payload is.
RequestHeadersJsonAlways(options) == getHeaders("application/json")

\* Lines 172-178: a multipart upload carries no Content-Type of its own
\* (fetch adds the boundary); every other request uses getHeaders().
RequestHeaders(options) ==
  IF options.formData
  THEN << <<"Authorization", "Token " \o PAPERLESS_TOKEN>>,
          <<"Accept", "application/json">> >>
  ELSE getHeaders("application/json")

\* The multipart payload handed to fetch, opaque to the client.
MultipartPayload == Str("<multipart form data>")

\* Lines 181-188: formData is tested first, so it wins over body.
RequestBody(options) ==
  IF options.formData THEN MultipartPayload
  ELSE IF options.body # Undef THEN Str(JSONstringify(options.body))
  ELSE Undef

\* Lines 157-191 of apiRequest: everything up to the suspension at
\* `await fetch(...)`, or the exception that ends the invocation before it.
ApiRequestBegin(method, endpoint, options) ==
  LET guard == validateConfig
      href == PAPERLESS_URL \o endpoint
      headers == RequestHeaders(options)
      body == RequestBody(options)
      debug == IF ~options.formData /\ options.body # Undef
               THEN << "[API DEBUG] " \o method \o " " \o endpoint,
                       "[API DEBUG] Body: " \o JSONstringify(options.body) >>
               ELSE <<>>
  IN /\ request' = [method |-> method, endpoint |-> endpoint, params |-> options.params,
                    body |-> options.body, formData |-> options.formData]
     /\ timedOut' = FALSE
     /\ response' = NoResponse
     /\ caught' = NoError
     /\ IF guard.kind = "throw"
        THEN /\ outcome' = guard
             /\ pc' = "done"
             /\ fetchCount' = 0
             /\ sent' = NoFetch
             /\ log' = log
        ELSE IF ~URLparses(href)
        THEN /\ outcome' = Thrown(JsError("TypeError", "Invalid URL"))
             /\ pc' = "done"
             /\ fetchCount' = 0
             /\ sent' = NoFetch
             /\ log' = log
        ELSE /\ outcome' = Pending
             /\ pc' = "fetch"
             /\ fetchCount' = 1
             /\ sent' = [url |-> href, query |-> BuildQuery(options.params),
                         method |-> method, headers |-> headers, body |-> body]
             /\ log' = log \o debug

(***************************************************************************)
(* The remote service and the transport, as seen through fetch.            *)
(***************************************************************************)
IsOk(status) == status >= 200 /\ status <= 299

JsonBody(v) == [kind |-> "json", value |-> v, text |-> ""]
TextBody(s) == [kind |-> "text", value |-> Undef, text |-> s]
EmptyBody == [kind |-> "empty", value |-> Undef, text |-> ""]

\* JSON bodies of error responses, in the shapes parseErrorResponse inspects.
ErrorBodies ==
  { Null, Num(5), Str("Not found."), Str("null"),
    Obj(<< <<"detail", Str("No permission")>> >>),
    Obj(<< <<"detail", Num(7)>> >>),
    Obj(<< <<"non_field_errors", Arr(<<Str("e1"), Str("e2")>>)>> >>),
    Obj(<< <<"non_field_errors", Str("oops")>> >>),
    Obj(<< <<"title", Arr(<<Str("This field is required.")>>)>>, <<"n", Num(3)>>,
           <<"name", Str("too long")>> >>),
    Obj(<< <<"title", Arr(<<Str("bad")>>)>>, <<"non_field_errors", Arr(<<Str("e1")>>)>>,
           <<"error", Str("boom")>>, <<"detail", Str("first")>> >>) }

\* Bodies that are not JSON.
TextBodies == {"<html>Bad Gateway</html>", "upstream fetch failed"}

ErrorStatuses == {400, 401, 404, 500, 501}

\* Saved views as the remote stores them (src/src/types.ts, lines 122-140).
Rule(ruleType, value) == Obj(<< <<"rule_type", Num(ruleType)>>, <<"value", value>> >>)

FilterRules ==
  { Rule(0, Str("")), Rule(0, Str("invoice")), Rule(0, Null),
    Rule(17, Str("2024-01-01")), Rule(17, Str("2023-06-30")), Rule(999, Str("x")) }

RuleLists == UNION { [1..n -> FilterRules] : n \in 0..MaxRules }

SortSettings ==
  { <<Null, FALSE>>, <<Str(""), FALSE>>, <<Str("created"), FALSE>>, <<Str("created"), TRUE>> }

SavedViews ==
  { Obj(<< <<"id", Num(7)>>, <<"name", Str("Inbox")>>,
           <<"sort_field", srt[1]>>, <<"sort_reverse", Bool(srt[2])>>,
           <<"filter_rules", Arr(rules)>> >>) : srt \in SortSettings, rules \in RuleLists }
  \cup
  { Obj(<< <<"id", Num(7)>>, <<"name", Str("Inbox")>>,
           <<"sort_field", srt[1]>>, <<"sort_reverse", Bool(srt[2])>> >>) : srt \in SortSettings }

DocumentList ==
  Obj(<< <<"count", Num(1)>>,
         <<"results", Arr(<< Obj(<< <<"id", Num(11)>>, <<"title", Str("Invoice")>> >>) >>)>> >>)

IsSavedViewEndpoint(endpoint) == Includes(endpoint, "/api/saved_views/")

\* `/api/documents/${id}/`
DocumentEndpoint(id) == "/api/documents/" \o NumToStr(id) \o "/"

\* The document the remote holds under ID 7.
Document == Obj(<< <<"id", Num(7)>>, <<"title", Str("Invoice")>> >>)

Payloads(endpoint) ==
  IF IsSavedViewEndpoint(endpoint) THEN SavedViews
  ELSE IF endpoint = DocumentEndpoint(7) THEN {Document}
  ELSE {DocumentList}

Response(status, contentLength, body) ==
  [status |-> status, contentLength |-> contentLength, stream |-> "unread", body |-> body]

\* What the remote may answer to a request for `endpoint`.
Responses(endpoint) ==
  { Response(st, Null, b) :
      st \in ErrorStatuses,
      b \in {JsonBody(v) : v \in ErrorBodies} \cup {TextBody(t) : t \in TextBodies} }
  \cup { Response(st, cl, EmptyBody) :
           st \in ErrorStatuses \cup {200, 204}, cl \in {Null, Str("0")} }
  \cup { Response(200, Null, b) :
           b \in {JsonBody(v) : v \in Payloads(endpoint)} \cup {TextBody(t) : t \in TextBodies} }

\* Errors a fetch, or the read of a body, may reject with when the timeout
\* has not fired (name x message, as the runtime supplies them).
TransportErrors ==
  { JsError(n, m) : n \in {"TypeError", "AbortError"},
                    m \in {"fetch failed", "network connection lost", "terminated"} }

TimeoutError == JsError("TimeoutError", "The operation was aborted due to timeout")

\* response.json()
ResponseJson(resp) ==
  CASE resp.body.kind = "json" -> Returned(resp.body.value)
    [] resp.body.kind = "text" ->
         Thrown(JsError("SyntaxError",
                        "Unexpected token in JSON, \"" \o resp.body.text \o "\" is not valid JSON"))
    [] OTHER -> Thrown(JsError("SyntaxError", "Unexpected end of JSON input"))

\* response.text(): a body can be consumed once.
ResponseText(resp, bodyUsed) ==
  IF bodyUsed THEN Thrown(JsError("TypeError", "Body is unusable: Body has already been read"))
  ELSE Returned(Str(resp.body.text))

(***************************************************************************)
(* The catch block of apiRequest (lines 217-255).                          *)
(***************************************************************************)
IsErrorInstance(e) == e.name # "(not an Error)"

TimedOutError ==
  PaperlessApiError(
    "Request timed out after " \o NumToStr(REQUEST_TIMEOUT_MS \div 1000) \o " seconds. "
    \o "The Paperless server may be slow or unreachable.", Undef, Undef)

UnreachableError ==
  PaperlessApiError(
    "Could not connect to Paperless at " \o PAPERLESS_URL \o ". "
    \o "Please verify the URL is correct and the server is running.", Undef, Undef)

\* The catch block with the message test ahead of the name test.
CatchBlockMessageFirst(error) ==
  IF error.name = "PaperlessApiError" THEN Thrown(error)
  ELSE IF Includes(error.message, "fetch") \/ Includes(error.message, "network")
  THEN Thrown(UnreachableError)
  ELSE IF error.name = "TimeoutError" \/ error.name = "AbortError"
  THEN Thrown(TimedOutError)
  ELSE Thrown(PaperlessApiError("Request failed: " \o error.message, Undef, Undef))

CatchBlock(error) ==
  IF error.name = "PaperlessApiError" THEN Thrown(error)
  ELSE IF IsErrorInstance(error)
  THEN IF error.name = "TimeoutError" \/ error.name = "AbortError"
       THEN Thrown(TimedOutError)
       ELSE IF Includes(error.message, "fetch") \/ Includes(error.message, "network")
       THEN Thrown(UnreachableError)
       ELSE Thrown(PaperlessApiError("Request failed: " \o error.message, Undef, Undef))
  ELSE Thrown(PaperlessApiError(
         "An unexpected error occurred while communicating with Paperless NGX.", Undef, Undef))

\* Lines 195-206: the error body is the decoded JSON, else the text, else
\* null; the classified error is thrown inside the try block.
ErrorBodyOf(json, resp) ==
  IF json.kind = "return" THEN json.value
  ELSE LET text == ResponseText(resp, TRUE)
       IN IF text.kind = "return" THEN text.value ELSE Null

\* The error thrown at line 202: the classified error, or the exception
\* formatHttpError raised while building its message.
HttpErrorThrown(resp, errorBody) ==
  LET message == formatHttpError(resp.status, errorBody)
  IN IF message.kind = "throw" THEN message.error
     ELSE PaperlessApiError(message.value.s, Num(resp.status), errorBody)

SuccessSentinel == Obj(<< <<"status", Str("success")>> >>)

(***************************************************************************)
(* Steps of a suspended apiRequest invocation.                             *)
(***************************************************************************)
\* fetch resolves with a Response (lines 191-212).
FetchRespondsWith(resp) ==
  /\ pc = "fetch"
  /\ ~(request.method \in {"GET", "HEAD"} /\ sent.body # Undef)
  /\ response' = resp
  /\ IF ~IsOk(resp.status)
     THEN pc' = "errjson" /\ outcome' = outcome
     ELSE IF resp.status = 204 \/ resp.contentLength = Str("0")
     THEN pc' = "done" /\ outcome' = Returned(SuccessSentinel)
     ELSE pc' = "okjson" /\ outcome' = outcome
  /\ UNCHANGED <<unitVars, config, stdout, request, sent, fetchCount, timedOut, caught, log, handlerVars>>

FetchResponds ==
  /\ pc = "fetch"
  /\ \E resp \in Responses(request.endpoint) : FetchRespondsWith(resp)

\* fetch rejects: the connection fails, or fetch refuses the request.
FetchRejects ==
  /\ pc = "fetch"
  /\ \E error \in IF request.method \in {"GET", "HEAD"} /\ sent.body # Undef
                  THEN {JsError("TypeError", "Request with GET/HEAD method cannot have body.")}
                  ELSE TransportErrors :
       /\ caught' = error
       /\ outcome' = CatchBlock(error)
  /\ pc' = "done"
  /\ UNCHANGED <<unitVars, config, stdout, request, sent, fetchCount, response, timedOut, log, handlerVars>>

\* The body of a non-2xx response has been read (lines 195-206).
ReadErrorBody ==
  /\ pc = "errjson"
  /\ LET thrown == HttpErrorThrown(response, ErrorBodyOf(ResponseJson(response), response))
     IN caught' = thrown /\ outcome' = CatchBlock(thrown)
  /\ response' = [response EXCEPT !.stream = "read"]
  /\ pc' = "done"
  /\ UNCHANGED <<unitVars, config, stdout, request, sent, fetchCount, timedOut, log, handlerVars>>

\* The read of a non-2xx body fails on the wire: response.json() rejects.
ReadErrorBodyFails ==
  /\ pc = "errjson"
  /\ \E error \in TransportErrors :
       LET thrown == HttpErrorThrown(response, ErrorBodyOf(Thrown(error), response))
       IN caught' = thrown /\ outcome' = CatchBlock(thrown)
  /\ response' = [response EXCEPT !.stream = "errored"]
  /\ pc' = "done"
  /\ UNCHANGED <<unitVars, config, stdout, request, sent, fetchCount, timedOut, log, handlerVars>>

\* The body of a 2xx response has been read (line 215).
ReadOkBody ==
  /\ pc = "okjson"
  /\ LET json == ResponseJson(response)
     IN IF json.kind = "return"
        THEN caught' = caught /\ outcome' = json
        ELSE caught' = json.error /\ outcome' = CatchBlock(json.error)
  /\ response' = [response EXCEPT !.stream = "read"]
  /\ pc' = "done"
  /\ UNCHANGED <<unitVars, config, stdout, request, sent, fetchCount, timedOut, log, handlerVars>>

\* The read of a 2xx body fails on the wire.
ReadOkBodyFails ==
  /\ pc = "okjson"
  /\ \E error \in TransportErrors :
       /\ caught' = error
       /\ outcome' = CatchBlock(error)
  /\ response' = [response EXCEPT !.stream = "errored"]
  /\ pc' = "done"
  /\ UNCHANGED <<unitVars, config, stdout, request, sent, fetchCount, timedOut, log, handlerVars>>

\* AbortSignal.timeout fires while the invocation is suspended: the pending
\* fetch or body read rejects with the signal's TimeoutError.
TimeoutFires ==
  /\ pc \in {"fetch", "errjson", "okjson"}
  /\ timedOut' = TRUE
  /\ LET thrown == IF pc = "errjson"
                   THEN HttpErrorThrown(response, ErrorBodyOf(Thrown(TimeoutError), response))
                   ELSE TimeoutError
     IN caught' = thrown /\ outcome' = CatchBlock(thrown)
  /\ response' = IF pc = "fetch" THEN response ELSE [response EXCEPT !.stream = "errored"]
  /\ pc' = "done"
  /\ UNCHANGED <<unitVars, config, stdout, request, sent, fetchCount, log, handlerVars>>

(***************************************************************************)
(* Tool handlers (src/src/schemas/index.ts).                               *)
(***************************************************************************)
\* `m[key] = value` on a mapping: overwrite in place, else append.
MapSet(m, key, value) ==
  IF \E i \in 1..Len(m) : m[i][1] = key
  THEN [i \in 1..Len(m) |-> IF m[i][1] = key THEN <<key, value>> ELSE m[i]]
  ELSE Append(m, <<key, value>>)

HasKey(m, key) == \E i \in 1..Len(m) : m[i][1] = key

\* `cond ? MapSet(m, key, value) : m`
SetIf(cond, m, key, value) == IF cond THEN MapSet(m, key, value) ELSE m

\* z.number().int().min(lo).max(hi).default(dflt) applied to an argument:
\* undefined takes the default, a number within the limits passes, and
\* anything else (null, a string, a number outside the limits) is an
\* issue.  hi = 0 stands for no .max(); the numbers of the model are integers.
ZodInt(v, lo, hi, dflt) ==
  IF v = Undef THEN [ok |-> TRUE, n |-> dflt]
  ELSE IF v.t = "number" /\ v.n >= lo /\ (hi = 0 \/ v.n <= hi)
       THEN [ok |-> TRUE, n |-> v.n]
       ELSE [ok |-> FALSE, n |-> 0]

\* paginationParams with the .max(MAX_PAGE_SIZE) of page_size left out.
paginationParamsNoMax(raw) ==
  LET page == ZodInt(raw[1], 1, 0, 1)
      page_size == ZodInt(raw[2], 1, 0, DEFAULT_PAGE_SIZE)
  IN [ok |-> page.ok /\ page_size.ok, paging |-> <<page.n, page_size.n>>]

\* Lines 31-43: the parse of the page and page_size arguments.
paginationParams(raw) ==
  LET page == ZodInt(raw[1], 1, 0, 1)
      page_size == ZodInt(raw[2], 1, MAX_PAGE_SIZE, DEFAULT_PAGE_SIZE)
  IN [ok |-> page.ok /\ page_size.ok, paging |-> <<page.n, page_size.n>>]

\* The handler is invoked with the parsed input, and only if the input
\* parses under the tool's inputSchema.
Accepted(input) == paginationParams(input.paging).ok
Parsed(input) == [input EXCEPT !.paging = paginationParams(input.paging).paging]

\* Arguments of the tool calls as the client sends them: <<page, page_size>>
\* pairs with absent, valid, out-of-range and wrongly typed members.
RawPages == {Undef, Num(0), Num(2), Str("2")}
RawPageSizes == {Undef, Num(0), Num(1), Num(MAX_PAGE_SIZE), Num(MAX_PAGE_SIZE + 1)}
RawPaging == { <<page, page_size>> : page \in RawPages, page_size \in RawPageSizes }

SearchInputs ==
  [ query : {Undef, Str(""), Str("invoice")},
    correspondent_id : {Undef, Num(3)},
    document_type_id : {Undef, Num(2)},
    tag_ids : {Undef, Arr(<<>>), Arr(<<Num(5), Num(7)>>)},
    created_after : {Undef, Str("2024-01-01")},
    created_before : {Undef, Str("2024-12-31")},
    ordering : {Str("-created")},
    paging : { <<Undef, Undef>>, <<Num(0), Undef>>, <<Undef, Num(MAX_PAGE_SIZE + 1)>> } ]

ListInputs == [ search : {Undef, Str(""), Str("inv")}, paging : RawPaging ]

SavedViewInputs ==
  [ view_id : {Num(7)},
    paging : { <<Num(2), Num(MAX_PAGE_SIZE)>>, <<Num(2), Num(0)>>, <<Null, Num(1)>> } ]

ListEndpoint(name) ==
  CASE name = "paperless_list_tags" -> "/api/tags/"
    [] name = "paperless_list_correspondents" -> "/api/correspondents/"
    [] OTHER -> "/api/document_types/"

ListTools ==
  {"paperless_list_tags", "paperless_list_correspondents", "paperless_list_document_types"}

\* Lines 586-609: the mapping paperless_search_documents builds.
SearchParams(params) ==
  LET m0 == << <<"page", Num(params.paging[1])>>, <<"page_size", Num(params.paging[2])>>,
               <<"ordering", params.ordering>> >>
      m1 == SetIf(Truthy(params.query), m0, "query", params.query)
      m2 == SetIf(Truthy(params.correspondent_id), m1, "correspondent__id",
                  params.correspondent_id)
      m3 == SetIf(Truthy(params.document_type_id), m2, "document_type__id",
                  params.document_type_id)
      m4 == IF Truthy(params.tag_ids) /\ Len(params.tag_ids.a) > 0
            THEN MapSet(m3, "tags__id__all", Str(Join(params.tag_ids.a, ",")))
            ELSE m3
      m5 == SetIf(Truthy(params.created_after), m4, "created__date__gt", params.created_after)
  IN SetIf(Truthy(params.created_before), m5, "created__date__lt", params.created_before)

\* Lines 904-912 (and 1013-1021, 1120-1128): the name-filtered list mapping.
ListParams(params) ==
  LET m0 == << <<"page", Num(params.paging[1])>>, <<"page_size", Num(params.paging[2])>>,
               <<"ordering", Str("name")>> >>
  IN SetIf(Truthy(params.search), m0, "name__icontains", params.search)

\* The switch guarded by `if (!value) continue`: an empty value is skipped
\* like a null one.
ApplyRuleSkipEmpty(m, rule) ==
  LET ruleType == Get(rule, "rule_type")
      value == Get(rule, "value")
  IN IF ~Truthy(value) THEN m
     ELSE CASE ruleType = Num(0) -> MapSet(m, "title__icontains", value)
            [] ruleType = Num(3) -> MapSet(m, "correspondent__id", value)
            [] ruleType = Num(4) -> MapSet(m, "document_type__id", value)
            [] ruleType = Num(6) -> MapSet(m, "tags__id__all", value)
            [] ruleType = Num(17) -> MapSet(m, "created__date__gt", value)
            [] ruleType = Num(18) -> MapSet(m, "created__date__lt", value)
            [] OTHER -> m

\* The switch writing a parameter only if the mapping does not hold it yet:
\* the first rule of a type wins.
ApplyRuleKeepFirst(m, rule) ==
  LET ruleType == Get(rule, "rule_type")
      value == Get(rule, "value")
      Put(key) == IF HasKey(m, key) THEN m ELSE MapSet(m, key, value)
  IN IF value = Null THEN m
     ELSE CASE ruleType = Num(0) -> Put("title__icontains")
            [] ruleType = Num(3) -> Put("correspondent__id")
            [] ruleType = Num(4) -> Put("document_type__id")
            [] ruleType = Num(6) -> Put("tags__id__all")
            [] ruleType = Num(17) -> Put("created__date__gt")
            [] ruleType = Num(18) -> Put("created__date__lt")
            [] OTHER -> m

\* The switch with the two date cases exchanged.
ApplyRuleDatesSwapped(m, rule) ==
  LET ruleType == Get(rule, "rule_type")
      value == Get(rule, "value")
  IN IF value = Null THEN m
     ELSE CASE ruleType = Num(0) -> MapSet(m, "title__icontains", value)
            [] ruleType = Num(3) -> MapSet(m, "correspondent__id", value)
            [] ruleType = Num(4) -> MapSet(m, "document_type__id", value)
            [] ruleType = Num(6) -> MapSet(m, "tags__id__all", value)
            [] ruleType = Num(17) -> MapSet(m, "created__date__lt", value)
            [] ruleType = Num(18) -> MapSet(m, "created__date__gt", value)
            [] OTHER -> m

\* Lines 1292-1318: the null test and the switch over rule_type.
ApplyRule(m, rule) ==
  LET ruleType == Get(rule, "rule_type")
      value == Get(rule, "value")
  IN IF value = Null THEN m
     ELSE CASE ruleType = Num(0) -> MapSet(m, "title__icontains", value)
            [] ruleType = Num(3) -> MapSet(m, "correspondent__id", value)
            [] ruleType = Num(4) -> MapSet(m, "document_type__id", value)
            [] ruleType = Num(6) -> MapSet(m, "tags__id__all", value)
            [] ruleType = Num(17) -> MapSet(m, "created__date__gt", value)
            [] ruleType = Num(18) -> MapSet(m, "created__date__lt", value)
            [] OTHER -> m

RECURSIVE ApplyRules(_, _)
ApplyRules(m, rules) ==
  IF rules = <<>> THEN m ELSE ApplyRules(ApplyRule(m, Head(rules)), Tail(rules))

\* Lines 1278-1287: pagination, then the sort settings of the view.
SavedViewSort(params, v) ==
  LET m0 == << <<"page", Num(params.paging[1])>>, <<"page_size", Num(params.paging[2])>> >>
      sortPrefix == IF Truthy(Get(v, "sort_reverse")) THEN "-" ELSE ""
  IN SetIf(Truthy(Get(v, "sort_field")), m0, "ordering",
           Str(sortPrefix \o JsString(Get(v, "sort_field"))))

\* Line 1291: what `for (const rule of view.filter_rules || [])` iterates:
\* the elements of an array, the characters of a string, nothing for a
\* falsy filter_rules.
SavedViewRules(v) ==
  LET rules == Get(v, "filter_rules")
  IN IF Truthy(rules) /\ rules.t = "array" THEN rules.a
     ELSE IF Truthy(rules) /\ rules.t = "string"
     THEN [i \in 1..Len(rules.s) |-> Str(SubSeq(rules.s, i, i))]
     ELSE <<>>

\* The loop header without the `|| []`: a missing filter_rules is iterated
\* as it is.
RulesNotIterableNoDefault(v) ==
  Get(v, "filter_rules").t \notin {"array", "string"}

\* Line 1291: the loop header throws for a truthy filter_rules that is
\* neither an array nor a string.
RulesNotIterable(v) ==
  LET rules == Get(v, "filter_rules")
  IN Truthy(rules) /\ rules.t \notin {"array", "string"}

\* Lines 1284 and 1292: a property read on null or undefined throws.
ReadThrows(v) == v.t \in {"null", "undefined"}

\* The compilation with the sort direction ignored: ordering is the bare
\* sort_field.
SavedViewParamsNoReverse(params, v) ==
  LET m0 == << <<"page", Num(params.paging[1])>>, <<"page_size", Num(params.paging[2])>> >>
      m1 == SetIf(Truthy(Get(v, "sort_field")), m0, "ordering",
                  Str(JsString(Get(v, "sort_field"))))
      rules == IF Truthy(Get(v, "filter_rules")) THEN Get(v, "filter_rules").a ELSE <<>>
  IN ApplyRules(m1, rules)

\* Lines 1278-1319: the mapping compiled from a fetched saved view.
SavedViewParams(params, v) ==
  ApplyRules(SavedViewSort(params, v), SavedViewRules(v))

\* formatResponse with a list formatter: the formatter reads data.results.
FormatList(data) ==
  IF Get(data, "results").t = "array"
  THEN Returned(Str("## Results (" \o NumToStr(Len(Get(data, "results").a)) \o " of "
                    \o JsString(Get(data, "count")) \o " total)"))
  ELSE Thrown(JsError("TypeError", "Cannot read properties of undefined (reading 'length')"))

\* Lines 517-533.
handleToolError(error) ==
  IF error.name = "PaperlessApiError"
  THEN [kind |-> "error", text |-> "Error: " \o error.message]
  ELSE IF IsErrorInstance(error)
  THEN [kind |-> "error", text |-> "Error: " \o error.message]
  ELSE [kind |-> "error", text |-> "An unexpected error occurred."]

\* The tail of a list-returning handler: format, or handle the error.
FinishList(out) ==
  IF out.kind = "throw" THEN handleToolError(out.error)
  ELSE LET text == FormatList(out.value)
       IN IF text.kind = "throw" THEN handleToolError(text.error)
          ELSE [kind |-> "ok", text |-> text.value.s]

(***************************************************************************)
(* The HTTP entry point (src/index.ts): startup banner and /health.        *)
(***************************************************************************)
\* The banner with the credential printed in place of the mask.
StartupBannerPrintsToken ==
  << IF PAPERLESS_URL # "" THEN "  Paperless URL: " \o PAPERLESS_URL
     ELSE "  WARNING: PAPERLESS_URL not configured!",
     IF PAPERLESS_TOKEN # "" THEN "  Paperless Token: " \o PAPERLESS_TOKEN \o " (configured)"
     ELSE "  WARNING: PAPERLESS_TOKEN not configured!" >>

\* The two configuration lines of the banner (lines 137-147; the box-drawing
\* and warning-sign characters are left out).
StartupBanner ==
  << IF PAPERLESS_URL # "" THEN "  Paperless URL: " \o PAPERLESS_URL
     ELSE "  WARNING: PAPERLESS_URL not configured!",
     IF PAPERLESS_TOKEN # "" THEN "  Paperless Token: ********** (configured)"
     ELSE "  WARNING: PAPERLESS_TOKEN not configured!" >>

HealthBody(configOk) ==
  IF configOk
  THEN [kind |-> "http", status |-> 200,
        text |-> JSONstringify(Obj(<< <<"status", Str("healthy")>>,
                                      <<"server", Str("paperless-ngx-mcp-server")>>,
                                      <<"paperless_url", Str(PAPERLESS_URL)>> >>))]
  ELSE [kind |-> "http", status |-> 503,
        text |-> JSONstringify(Obj(<< <<"status", Str("unhealthy")>>,
                                      <<"error", Str("Missing required configuration "
                                                     \o "(PAPERLESS_URL or PAPERLESS_TOKEN)")>> >>))]

\* /health with configOk computed from the base URL alone.
HealthResponseUrlOnly == HealthBody(PAPERLESS_URL # "")

\* The answer of GET /health (lines 73-88).
HealthResponse == HealthBody(PAPERLESS_URL # "" /\ PAPERLESS_TOKEN # "")

\* GET /health is served.
Health ==
  /\ hpc = "idle"
  /\ tool' = [name |-> "health"]
  /\ toolResult' = HealthResponse
  /\ hpc' = "returned"
  /\ UNCHANGED <<unitVars, config, stdout, callVars, apiParams, view>>

GetOptions(params) == [params |-> params, body |-> Undef, formData |-> FALSE]

\* paperless_search_documents is called (lines 583-614, up to the await).
SearchDocuments ==
  /\ hpc = "idle"
  /\ \E input \in SearchInputs :
       LET params == Parsed(input)
       IN /\ Accepted(input)
          /\ tool' = [name |-> "paperless_search_documents", input |-> input,
                      params |-> params]
          /\ apiParams' = SearchParams(params)
          /\ ApiRequestBegin("GET", "/api/documents/", GetOptions(SearchParams(params)))
  /\ hpc' = "await"
  /\ UNCHANGED <<unitVars, config, stdout, view, toolResult>>

\* paperless_list_tags / _correspondents / _document_types is called.
ListByName ==
  /\ hpc = "idle"
  /\ \E name \in ListTools, input \in ListInputs :
       LET params == Parsed(input)
       IN /\ Accepted(input)
          /\ tool' = [name |-> name, input |-> input, params |-> params]
          /\ apiParams' = ListParams(params)
          /\ ApiRequestBegin("GET", ListEndpoint(name), GetOptions(ListParams(params)))
  /\ hpc' = "await"
  /\ UNCHANGED <<unitVars, config, stdout, view, toolResult>>

\* paperless_execute_saved_view is called (lines 1270-1275).
ExecuteSavedView ==
  /\ hpc = "idle"
  /\ \E input \in SavedViewInputs :
       LET params == Parsed(input)
       IN /\ Accepted(input)
          /\ tool' = [name |-> "paperless_execute_saved_view", input |-> input,
                      params |-> params]
          /\ ApiRequestBegin("GET", "/api/saved_views/" \o JsString(params.view_id) \o "/",
                             GetOptions(<<>>))
  /\ hpc' = "await_view"
  /\ UNCHANGED <<unitVars, config, stdout, apiParams, view, toolResult>>

\* A tool call whose arguments do not parse under the tool's inputSchema is
\* answered with an invalid-parameters error; the handler is not invoked.
InvalidParams ==
  /\ hpc = "idle"
  /\ \E call \in ({"paperless_search_documents"} \X SearchInputs)
                   \cup (ListTools \X ListInputs)
                   \cup ({"paperless_execute_saved_view"} \X SavedViewInputs) :
       /\ ~Accepted(call[2])
       /\ tool' = [name |-> "rejected", requested |-> call[1], input |-> call[2]]
  /\ toolResult' = [kind |-> "error", text |-> "Invalid arguments for tool"]
  /\ hpc' = "returned"
  /\ UNCHANGED <<unitVars, config, stdout, callVars, apiParams, view>>

\* The handler with the view fetch guarded by `.catch(() => ({}))`: a failed
\* fetch counts as an empty view and the documents query is issued anyway.
SavedViewFetchedIgnoresFailure ==
  /\ hpc = "await_view"
  /\ pc = "done"
  /\ LET fetched == IF outcome.kind = "throw" THEN Obj(<<>>) ELSE outcome.value
     IN /\ view' = fetched
        /\ apiParams' = SavedViewParams(tool.params, fetched)
        /\ ApiRequestBegin("GET", "/api/documents/",
                           GetOptions(SavedViewParams(tool.params, fetched)))
  /\ hpc' = "await_docs"
  /\ UNCHANGED <<unitVars, config, stdout, tool, toolResult>>

\* The saved view has arrived, or its fetch failed (lines 1277-1324, 1335).
SavedViewFetched ==
  /\ hpc = "await_view"
  /\ pc = "done"
  /\ IF outcome.kind = "throw"
     THEN /\ toolResult' = handleToolError(outcome.error)
          /\ hpc' = "returned"
          /\ UNCHANGED <<callVars, apiParams, view>>
     ELSE /\ view' = outcome.value
          /\ apiParams' = SavedViewParams(tool.params, outcome.value)
          /\ ApiRequestBegin("GET", "/api/documents/",
                             GetOptions(SavedViewParams(tool.params, outcome.value)))
          /\ hpc' = "await_docs"
          /\ UNCHANGED toolResult
  /\ UNCHANGED <<unitVars, config, stdout, tool>>

\* Validated inputs of the two single-document tools whose handlers end in
\* a confirmation (DeleteDocumentSchema, GetDocumentDownloadUrlSchema).
DeleteInputs == { [document_id |-> 7, confirm |-> TRUE] }
DownloadUrlInputs == { [document_id |-> 7, original |-> o] : o \in BOOLEAN }

\* paperless_delete_document is called (lines 774-776, up to the await).
\* del(endpoint) passes no options.
DeleteDocument ==
  /\ hpc = "idle"
  /\ \E input \in DeleteInputs :
       /\ tool' = [name |-> "paperless_delete_document", input |-> input, params |-> input]
       /\ ApiRequestBegin("DELETE", DocumentEndpoint(input.document_id), GetOptions(<<>>))
  /\ hpc' = "await_delete"
  /\ UNCHANGED <<unitVars, config, stdout, apiParams, view, toolResult>>

\* paperless_get_document_download_url is called (lines 813-816): the
\* document is fetched to verify that it exists.
GetDownloadUrl ==
  /\ hpc = "idle"
  /\ \E input \in DownloadUrlInputs :
       /\ tool' = [name |-> "paperless_get_document_download_url", input |-> input,
                   params |-> input]
       /\ ApiRequestBegin("GET", DocumentEndpoint(input.document_id), GetOptions(<<>>))
  /\ hpc' = "await_exists"
  /\ UNCHANGED <<unitVars, config, stdout, apiParams, view, toolResult>>

\* The delete handler without its try/catch reading of the outcome: the
\* confirmation is returned whatever the call did.
FinishDeleteAlwaysConfirms(params, out) ==
  [kind |-> "ok",
   text |-> "Document #" \o NumToStr(params.document_id) \o " has been permanently deleted."]

\* The tail of the delete handler (lines 776-788).
FinishDelete(params, out) ==
  IF out.kind = "throw" THEN handleToolError(out.error)
  ELSE [kind |-> "ok",
        text |-> "Document #" \o NumToStr(params.document_id)
                 \o " has been permanently deleted."]

\* The tail of the download-URL handler (lines 816-834).  (The source puts
\* the header example of the note between backquotes.)
FinishDownloadUrl(params, out) ==
  IF out.kind = "throw" THEN handleToolError(out.error)
  ELSE LET urlPath == IF params.original
                      THEN DocumentEndpoint(params.document_id) \o "original/"
                      ELSE DocumentEndpoint(params.document_id) \o "download/"
       IN [kind |-> "ok",
           text |-> JoinStrings(
             << "**Download URL:**",
                PAPERLESS_URL \o urlPath,
                "",
                "**Note:** This URL requires authentication. Include your API token "
                \o "in the Authorization header: Authorization: Token YOUR_TOKEN" >>,
             "\n")]

\* The delete or download-URL handler resumes after its apiRequest settled.
DocumentHandlerReturns ==
  /\ hpc \in {"await_delete", "await_exists"}
  /\ pc = "done"
  /\ toolResult' = IF hpc = "await_delete" THEN FinishDelete(tool.params, outcome)
                   ELSE FinishDownloadUrl(tool.params, outcome)
  /\ hpc' = "returned"
  /\ UNCHANGED <<unitVars, config, stdout, callVars, tool, apiParams, view>>

\* A handler resumes after its (last) apiRequest settled and returns.
HandlerReturns ==
  /\ hpc \in {"await", "await_docs"}
  /\ pc = "done"
  /\ toolResult' = FinishList(outcome)
  /\ hpc' = "returned"
  /\ UNCHANGED <<unitVars, config, stdout, callVars, tool, apiParams, view>>

\* The request descriptors of a caller that uses apiRequest directly.
Methods == {"GET", "POST", "DELETE"}
ParamValues == {Undef, Null, Str(""), Str("v"), Num(0), Bool(FALSE)}
ParamMaps ==
  { a \o b : a \in {<<>>} \cup { << <<"a", v>> >> : v \in ParamValues },
             b \in {<<>>, << <<"b", Num(0)>> >>} }
RequestBodies == {Undef, Obj(<< <<"title", Str("Invoice")>>, <<"correspondent", Null>> >>)}

\* apiRequest(method, endpoint, {params, body, formData}) is called.
ApiRequest ==
  /\ hpc = "idle"
  /\ tool' = [name |-> "apiRequest"]
  /\ \E method \in Methods, params \in ParamMaps, body \in RequestBodies, formData \in BOOLEAN :
       ApiRequestBegin(method, "/api/documents/",
                       [params |-> params, body |-> body, formData |-> formData])
  /\ hpc' = "direct"
  /\ UNCHANGED <<unitVars, config, stdout, apiParams, view, toolResult>>

\* The caller takes the result; the server is ready for the next call.
NextCall ==
  /\ \/ hpc = "returned"
     \/ hpc = "direct" /\ pc = "done"
  /\ pc' = "idle"
  /\ request' = NoRequest
  /\ sent' = NoFetch
  /\ fetchCount' = 0
  /\ response' = NoResponse
  /\ timedOut' = FALSE
  /\ caught' = NoError
  /\ outcome' = Pending
  /\ log' = <<>>
  /\ hpc' = "idle"
  /\ tool' = [name |-> "none"]
  /\ apiParams' = <<>>
  /\ view' = Undef
  /\ toolResult' = [kind |-> "none"]
  /\ UNCHANGED <<unitVars, config, stdout>>

Init ==
  /\ PAPERLESS_URL \in {StripTrailingSlash(u) : u \in EnvUrls}
  /\ PAPERLESS_TOKEN \in EnvTokens
  /\ stdout = StartupBanner
  /\ pc = "idle"
  /\ request = NoRequest
  /\ sent = NoFetch
  /\ fetchCount = 0
  /\ response = NoResponse
  /\ timedOut = FALSE
  /\ caught = NoError
  /\ outcome = Pending
  /\ log = <<>>
  /\ hpc = "idle"
  /\ tool = [name |-> "none"]
  /\ apiParams = <<>>
  /\ view = Undef
  /\ toolResult = [kind |-> "none"]
  /\ classified = NoClassification
  /\ ruleIndex = 0
  /\ running = 1
  /\ frames = <<>>

Next ==
  \/ SearchDocuments
  \/ ListByName
  \/ ExecuteSavedView
  \/ InvalidParams
  \/ Health
  \/ DeleteDocument
  \/ GetDownloadUrl
  \/ SavedViewFetched
  \/ HandlerReturns
  \/ DocumentHandlerReturns
  \/ ApiRequest
  \/ FetchResponds
  \/ FetchRejects
  \/ ReadErrorBody
  \/ ReadErrorBodyFails
  \/ ReadOkBody
  \/ ReadOkBodyFails
  \/ TimeoutFires
  \/ NextCall

Spec == Init /\ [][Next]_vars

\* The callers that touch the credential or report on it: /health, the
\* download-URL and delete tools, and a direct caller of apiRequest.
CredentialNext ==
  \/ Health
  \/ GetDownloadUrl
  \/ DeleteDocument
  \/ DocumentHandlerReturns
  \/ ApiRequest
  \/ FetchResponds
  \/ FetchRejects
  \/ ReadErrorBody
  \/ ReadErrorBodyFails
  \/ ReadOkBody
  \/ ReadOkBodyFails
  \/ TimeoutFires
  \/ NextCall

CredentialSpec == Init /\ [][CredentialNext]_vars

\* No apiRequest invocation in progress, with a complete configuration.
Quiescent ==
  /\ PAPERLESS_URL = "http://paperless.local"
  /\ PAPERLESS_TOKEN = "tok123"
  /\ stdout = StartupBanner
  /\ pc = "idle"
  /\ request = NoRequest
  /\ sent = NoFetch
  /\ fetchCount = 0
  /\ response = NoResponse
  /\ timedOut = FALSE
  /\ caught = NoError
  /\ outcome = Pending
  /\ log = <<>>
  /\ toolResult = [kind |-> "none"]

(***************************************************************************)
(* The saved-view filter compiler on its own: lines 1277-1319 of the       *)
(* handler, one rule of the loop at a time, over views whose rules range   *)
(* over every recognised rule type.                                        *)
(***************************************************************************)
CompileRuleTypes == {0, 3, 4, 6, 17, 18, 999}
CompileValues == {Null, Str(""), Str("5")}
CompileRules == { Rule(ruleType, value) : ruleType \in CompileRuleTypes, value \in CompileValues }
CompileRuleLists == UNION { [1..n -> CompileRules] : n \in 0..MaxRules }

CompileViews ==
  { Obj(<< <<"id", Num(7)>>, <<"name", Str("Inbox")>>,
           <<"sort_field", srt[1]>>, <<"sort_reverse", Bool(srt[2])>>,
           <<"filter_rules", Arr(rules)>> >>) :
      srt \in SortSettings, rules \in CompileRuleLists }
  \cup
  { Obj(<< <<"id", Num(7)>>, <<"name", Str("Inbox")>>,
           <<"sort_field", srt[1]>>, <<"sort_reverse", Bool(srt[2])>> >>) :
      srt \in SortSettings }

\* Views the declared type PaperlessSavedView does not admit, which the
\* unchecked cast of the response lets through.
IllTypedViews ==
  { Null }
  \cup
  { Obj(<< <<"id", Num(7)>>, <<"name", Str("Inbox")>>, <<"sort_field", Null>>,
           <<"sort_reverse", Bool(FALSE)>>, <<"filter_rules", rules>> >>) :
      rules \in { Num(5), Str("ab"), Arr(<<Null>>), Arr(<<Rule(0, Str("5")), Null>>) } }

\* The handler holds a fetched view and is about to build apiParams.
CompileInit ==
  /\ Quiescent
  /\ hpc = "compile"
  /\ \E input \in SavedViewInputs :
       /\ Accepted(input)
       /\ tool = [name |-> "paperless_execute_saved_view", input |-> input,
                  params |-> Parsed(input)]
  /\ view \in CompileViews \cup IllTypedViews
  /\ apiParams = <<>>
  /\ ruleIndex = 0
  /\ running = 1
  /\ frames = <<>>
  /\ classified = NoClassification

\* Lines 1278-1287: pagination and sort.
CompileSort ==
  /\ hpc = "compile"
  /\ ~ReadThrows(view)
  /\ apiParams' = SavedViewSort(tool.params, view)
  /\ hpc' = "rules"
  /\ UNCHANGED <<config, stdout, callVars, tool, view, toolResult, unitVars>>

\* Lines 1291-1319: one iteration of the loop over the rules.
CompileRule ==
  /\ hpc = "rules"
  /\ ~RulesNotIterable(view)
  /\ ruleIndex < Len(SavedViewRules(view))
  /\ ~ReadThrows(SavedViewRules(view)[ruleIndex + 1])
  /\ apiParams' = ApplyRule(apiParams, SavedViewRules(view)[ruleIndex + 1])
  /\ ruleIndex' = ruleIndex + 1
  /\ UNCHANGED <<config, stdout, callVars, hpc, tool, view, toolResult, classified, running, frames>>

\* The loop is exhausted: apiParams is what the handler passes to get().
CompileDone ==
  /\ hpc = "rules"
  /\ ~RulesNotIterable(view)
  /\ ruleIndex = Len(SavedViewRules(view))
  /\ hpc' = "compiled"
  /\ UNCHANGED <<config, stdout, callVars, tool, apiParams, view, toolResult, unitVars>>

\* A TypeError raised while compiling (reading view.sort_field of null,
\* iterating a filter_rules that is not iterable, reading rule.rule_type of
\* null) lands in the handler's catch block (line 1335).
CompileThrows ==
  /\ \/ hpc = "compile" /\ ReadThrows(view)
     \/ hpc = "rules" /\ RulesNotIterable(view)
     \/ /\ hpc = "rules"
        /\ ~RulesNotIterable(view)
        /\ ruleIndex < Len(SavedViewRules(view))
        /\ ReadThrows(SavedViewRules(view)[ruleIndex + 1])
  /\ toolResult' = handleToolError(
                     IF hpc = "compile"
                     THEN JsError("TypeError",
                                  "Cannot read properties of null (reading 'sort_field')")
                     ELSE IF RulesNotIterable(view)
                     THEN JsError("TypeError", "(view.filter_rules || []) is not iterable")
                     ELSE JsError("TypeError",
                                  "Cannot read properties of null (reading 'rule_type')"))
  /\ hpc' = "returned"
  /\ UNCHANGED <<config, stdout, callVars, tool, apiParams, view, unitVars>>

\* Lines 1321-1324: the documents query is issued with the compiled mapping.
CompileGet ==
  /\ hpc = "compiled"
  /\ ApiRequestBegin("GET", "/api/documents/", GetOptions(apiParams))
  /\ hpc' = "await_docs"
  /\ UNCHANGED <<config, stdout, tool, apiParams, view, toolResult, unitVars>>

CompileNext ==
  \/ CompileSort
  \/ CompileRule
  \/ CompileDone
  \/ CompileThrows
  \/ CompileGet

CompileSpec == CompileInit /\ [][CompileNext]_vars

(***************************************************************************)
(* The error classifier on its own: formatHttpError is a pure function of  *)
(* (status, body), applied here to statuses and bodies beyond the ones the *)
(* modelled server answers with.                                           *)
(***************************************************************************)
(* paperless_update_document on its own (lines 702-750), over validated    *)
(* inputs in which every optional field is absent or set.                  *)
(***************************************************************************)
UpdateInputs ==
  { [document_id |-> 7, title |-> title, correspondent_id |-> correspondent,
     document_type_id |-> documentType, tag_ids |-> tags,
     archive_serial_number |-> asn, created |-> created, custom_fields |-> custom] :
      title \in {Undef, Str("Invoice 2024")},
      correspondent \in {Undef, Num(0), Num(3)},
      documentType \in {Undef, Num(0)},
      tags \in {Undef, Arr(<< Num(1), Num(2) >>)},
      asn \in {Undef, Num(0), Num(9)},
      created \in {Undef, Str("2024-03-15")},
      custom \in {Undef, Arr(<< Obj(<< <<"field", Num(1)>>, <<"value", Str("x")>> >>) >>)} }

\* The properties of `updateFields`: every parameter but document_id.
UpdateFieldNames ==
  << "title", "correspondent_id", "document_type_id", "tag_ids",
     "archive_serial_number", "created", "custom_fields" >>

\* Object.values(updateFields).every(v => v === undefined)
NoUpdateField(params) == \A i \in DOMAIN UpdateFieldNames : params[UpdateFieldNames[i]] = Undef

\* `id > 0 ? id : null`
IdOrNull(v) == IF v.n > 0 THEN v ELSE Null

\* Lines 716-736: the payload, one `if` after the other.
UpdateData(params) ==
  LET a == SetIf(params.title # Undef, <<>>, "title", params.title)
      b == SetIf(params.correspondent_id # Undef, a, "correspondent",
                 IF params.correspondent_id = Undef THEN Undef
                 ELSE IdOrNull(params.correspondent_id))
      c == SetIf(params.document_type_id # Undef, b, "document_type",
                 IF params.document_type_id = Undef THEN Undef
                 ELSE IdOrNull(params.document_type_id))
      d == SetIf(params.tag_ids # Undef, c, "tags", params.tag_ids)
      e == SetIf(params.archive_serial_number # Undef, d, "archive_serial_number",
                 IF params.archive_serial_number = Undef THEN Undef
                 ELSE IdOrNull(params.archive_serial_number))
  IN SetIf(params.created # Undef, e, "created", params.created)

\* formatDate without the locale rendering of a valid date.
formatDate(v) == IF ~Truthy(v) THEN "Unknown" ELSE JsString(v)

\* formatDocumentMarkdown: the lines every document gets; the optional lines
\* print fields the documents of this environment do not carry.
formatDocumentMarkdown(doc) ==
  JoinStrings(
    << "### " \o (IF Truthy(Get(doc, "title")) THEN JsString(Get(doc, "title")) ELSE "Untitled"),
       "",
       "**ID:** " \o JsString(Get(doc, "id")),
       "**Created:** " \o formatDate(Get(doc, "created")),
       "**Added:** " \o formatDate(Get(doc, "added")),
       "**Modified:** " \o formatDate(Get(doc, "modified")) >>,
    "\n")

\* The tail of the update handler (lines 738-748).
FinishUpdate(params, out) ==
  IF out.kind = "throw" THEN handleToolError(out.error)
  ELSE [kind |-> "ok",
        text |-> "Document #" \o NumToStr(params.document_id) \o " updated successfully!\n\n"
                 \o formatDocumentMarkdown(out.value)]

UpdateInit ==
  /\ Quiescent
  /\ hpc = "update"
  /\ \E input \in UpdateInputs :
       tool = [name |-> "paperless_update_document", input |-> input, params |-> input]
  /\ apiParams = <<>>
  /\ view = Undef
  /\ ruleIndex = 0
  /\ running = 1
  /\ frames = <<>>
  /\ classified = NoClassification

\* The handler runs up to its await, or returns at once (lines 703-741).
UpdateDocument ==
  /\ hpc = "update"
  /\ IF NoUpdateField(tool.params)
     THEN /\ toolResult' =
               [kind |-> "error",
                text |-> "Error: At least one field to update must be specified "
                         \o "(title, correspondent_id, document_type_id, tag_ids, "
                         \o "archive_serial_number, or created)."]
          /\ hpc' = "returned"
          /\ UNCHANGED callVars
     ELSE /\ ApiRequestBegin("PATCH", DocumentEndpoint(tool.params.document_id),
                             [params |-> <<>>, body |-> Obj(UpdateData(tool.params)),
                              formData |-> FALSE])
          /\ hpc' = "await_update"
          /\ UNCHANGED toolResult
  /\ UNCHANGED <<unitVars, config, stdout, tool, apiParams, view>>

\* The handler resumes after the PATCH settled and returns.
UpdateReturns ==
  /\ hpc = "await_update"
  /\ pc = "done"
  /\ toolResult' = FinishUpdate(tool.params, outcome)
  /\ hpc' = "returned"
  /\ UNCHANGED <<unitVars, config, stdout, callVars, tool, apiParams, view>>

UpdateNext ==
  \/ UpdateDocument
  \/ FetchResponds
  \/ FetchRejects
  \/ ReadErrorBody
  \/ ReadErrorBodyFails
  \/ ReadOkBody
  \/ ReadOkBodyFails
  \/ TimeoutFires
  \/ UpdateReturns

UpdateSpec == UpdateInit /\ [][UpdateNext]_vars

(***************************************************************************)
(* Several apiRequest invocations in flight.  The event loop runs one      *)
(* invocation at a time, from one await to the next; the call variables    *)
(* hold the locals of the invocation that runs and `frames` the locals of  *)
(* the others.                                                             *)
(***************************************************************************)
MaxCalls == 2
Invocations == 1..MaxCalls

\* The const/let bindings of one apiRequest invocation.
Locals ==
  [pc |-> pc, request |-> request, sent |-> sent, fetchCount |-> fetchCount,
   response |-> response, timedOut |-> timedOut, caught |-> caught, outcome |-> outcome]

NotStarted ==
  [pc |-> "idle", request |-> NoRequest, sent |-> NoFetch, fetchCount |-> 0,
   response |-> NoResponse, timedOut |-> FALSE, caught |-> NoError, outcome |-> Pending]

\* An invocation continues with every binding of its own, except `response`,
\* which is one binding shared by all invocations.
ResumeSharedResponse(f) ==
  /\ pc' = f.pc
  /\ request' = f.request
  /\ sent' = f.sent
  /\ fetchCount' = f.fetchCount
  /\ response' = response
  /\ timedOut' = f.timedOut
  /\ caught' = f.caught
  /\ outcome' = f.outcome

\* An invocation continues after an await with the bindings it had.
Resume(f) ==
  /\ pc' = f.pc
  /\ request' = f.request
  /\ sent' = f.sent
  /\ fetchCount' = f.fetchCount
  /\ response' = f.response
  /\ timedOut' = f.timedOut
  /\ caught' = f.caught
  /\ outcome' = f.outcome

\* What the remote answers in this setting: a document list, no content, a
\* JSON error, a text error, and a 2xx body that is not JSON.
ConcurrentResponses ==
  { Response(200, Null, JsonBody(DocumentList)),
    Response(204, Null, EmptyBody),
    Response(404, Null, JsonBody(Obj(<< <<"detail", Str("inner detail")>> >>))),
    Response(500, Null, TextBody("Bad Gateway")),
    Response(200, Null, TextBody("Bad Gateway")) }

ConcurrentInit ==
  /\ Quiescent
  /\ hpc = "concurrent"
  /\ tool = [name |-> "apiRequest"]
  /\ apiParams = <<>>
  /\ view = Undef
  /\ ruleIndex = 0
  /\ classified = NoClassification
  /\ running = 1
  /\ frames = [i \in Invocations |-> NotStarted]

\* The invocation that runs is called: a query, or a JSON payload.
ConcurrentRequest ==
  /\ hpc = "concurrent"
  /\ pc = "idle"
  /\ \/ ApiRequestBegin("GET", "/api/documents/",
                        GetOptions(<< <<"query", Str("invoice")>> >>))
     \/ ApiRequestBegin("POST", "/api/documents/",
                        [params |-> <<>>, body |-> Obj(<< <<"title", Str("Invoice")>> >>),
                         formData |-> FALSE])
  /\ UNCHANGED <<unitVars, config, stdout, handlerVars>>

\* The fetch of the invocation that runs resolves.
ConcurrentFetchResponds ==
  /\ hpc = "concurrent"
  /\ pc = "fetch"
  /\ \E resp \in ConcurrentResponses : FetchRespondsWith(resp)

\* The event loop turns to another invocation.
Switch ==
  /\ hpc = "concurrent"
  /\ \E next \in Invocations \ {running} :
       /\ frames' = [frames EXCEPT ![running] = Locals, ![next] = NotStarted]
       /\ running' = next
       /\ Resume(frames[next])
  /\ UNCHANGED <<config, stdout, log, handlerVars, classified, ruleIndex>>

\* The steps of the invocation that runs and the turn of the event loop; a
\* wire failure during a body read is not part of this setting.
ConcurrentNext ==
  \/ ConcurrentRequest
  \/ ConcurrentFetchResponds
  \/ FetchRejects
  \/ ReadErrorBody
  \/ ReadOkBody
  \/ TimeoutFires
  \/ Switch

ConcurrentSpec == ConcurrentInit /\ [][ConcurrentNext]_vars

(***************************************************************************)
ClassifierStatuses ==
  {-1, 0, 200, 302, 400, 401, 403, 404, 409, 413, 418, 429} \cup 500..599

\* Absent and empty bodies, texts that are not JSON, texts encoding each kind
\* of JSON value, and parsed values with the three known keys and other
\* fields holding values of every JSON type.
ClassifierBodies ==
  { Undef, Null, Str(""), Num(0), Bool(FALSE), Bool(TRUE), Num(5),
    Str("Not found."), Str("<html>Bad Gateway</html>"),
    Str("null"), Str("5"), Str("0"), Str("true"), Str("\"x\""),
    Str("[]"), Str("[\"a\",\"b\"]"), Str("{}"),
    Str("{\"detail\":\"inner detail\"}"),
    Str("{\"non_field_errors\":\"oops\"}"),
    Arr(<<>>), Arr(<<Str("a"), Str("b")>>), Obj(<<>>),
    Obj(<< <<"detail", Str("Not found.")>> >>),
    Obj(<< <<"detail", Str("")>>, <<"error", Str("boom")>> >>),
    Obj(<< <<"detail", Num(7)>> >>),
    Obj(<< <<"detail", Num(0)>>, <<"title", Str("too long")>> >>),
    Obj(<< <<"detail", Arr(<<Str("p"), Str("q")>>)>> >>),
    Obj(<< <<"detail", Obj(<< <<"code", Num(1)>> >>)>> >>),
    Obj(<< <<"detail", Null>>, <<"non_field_errors", Arr(<<Str("e1"), Str("e2")>>)>> >>),
    Obj(<< <<"error", Str("boom")>>, <<"non_field_errors", Arr(<<Str("e1")>>)>> >>),
    Obj(<< <<"error", Bool(FALSE)>>, <<"name", Str("taken")>> >>),
    Obj(<< <<"non_field_errors", Arr(<<Str("e1"), Str("e2")>>)>>,
           <<"title", Arr(<<Str("too long")>>)>> >>),
    Obj(<< <<"non_field_errors", Arr(<<>>)>>, <<"title", Arr(<<Str("too long")>>)>> >>),
    Obj(<< <<"non_field_errors", Arr(<<>>)>> >>),
    Obj(<< <<"non_field_errors", Null>>, <<"name", Str("taken")>> >>),
    Obj(<< <<"non_field_errors", Num(3)>> >>),
    Obj(<< <<"non_field_errors", Str("oops")>> >>),
    Obj(<< <<"non_field_errors", Obj(<< <<"length", Num(2)>> >>)>> >>),
    Obj(<< <<"title", Arr(<<Str("too long"), Str("bad")>>)>>, <<"name", Str("taken")>> >>),
    Obj(<< <<"title", Arr(<<Null, Num(3)>>)>>, <<"count", Num(3)>> >>),
    Obj(<< <<"count", Num(3)>>, <<"flag", Bool(TRUE)>>, <<"inner", Obj(<<>>)>>,
           <<"nothing", Null>> >>),
    Obj(<< <<"detail", Str("d")>>, <<"error", Str("e")>>,
           <<"non_field_errors", Arr(<<Str("n")>>)>>, <<"title", Str("t")>> >>) }

ClassifierInit ==
  /\ Quiescent
  /\ hpc = "idle"
  /\ tool = [name |-> "none"]
  /\ apiParams = <<>>
  /\ view = Undef
  /\ ruleIndex = 0
  /\ running = 1
  /\ frames = <<>>
  /\ \E status \in ClassifierStatuses, body \in ClassifierBodies :
       classified = [status |-> status, body |-> body,
                     detail |-> Pending, result |-> Pending]

\* formatHttpError(status, body) is evaluated, and parseErrorResponse(body)
\* with it.
Classify ==
  /\ classified.result = Pending
  /\ classified' = [classified EXCEPT
                      !.detail = parseErrorResponse(classified.body),
                      !.result = formatHttpError(classified.status, classified.body)]
  /\ UNCHANGED <<config, stdout, callVars, handlerVars, ruleIndex, running, frames>>

ClassifierNext == Classify

ClassifierSpec == ClassifierInit /\ [][ClassifierNext]_vars

(***************************************************************************)
(* Properties.                                                             *)
(***************************************************************************)
Settled == pc = "done"
ConfigMissing == PAPERLESS_URL = "" \/ PAPERLESS_TOKEN = ""
IsClassified(out) == out.kind = "throw" /\ out.error.name = "PaperlessApiError"
StartsWith(s, prefix) == Len(s) >= Len(prefix) /\ SubSeq(s, 1, Len(prefix)) = prefix

\* C1: a settled apiRequest invocation has returned a value or thrown a
\* PaperlessApiError; no other exception type reaches the caller.
C1_OnlyClassifiedErrors ==
  Settled => (outcome.kind = "return" \/ IsClassified(outcome))

\* The error body apiRequest hands to the classifier for the response.
ObtainedErrorBody ==
  IF response.stream = "errored" THEN Null
  ELSE ErrorBodyOf(ResponseJson(response), response)

\* C2: an invocation that received a non-2xx response throws a
\* PaperlessApiError whose statusCode is the response status and whose
\* message is formatHttpError(status, body).
C2_NonOkRaisesClassified ==
  (Settled /\ response.status # 0 /\ ~IsOk(response.status)) =>
    /\ IsClassified(outcome)
    /\ outcome.error.statusCode = Num(response.status)
    /\ formatHttpError(response.status, ObtainedErrorBody).kind = "return"
    /\ outcome.error.message = formatHttpError(response.status, ObtainedErrorBody).value.s

\* C3: while the base URL or the token is empty no fetch is ever issued, and
\* an invocation ends with the configuration error.
C3_ConfigGuardBeforeNetwork ==
  ConfigMissing =>
    /\ fetchCount = 0
    /\ sent = NoFetch
    /\ pc \in {"idle", "done"}
    /\ Settled => /\ IsClassified(outcome)
                  /\ Includes(outcome.error.message, "environment variable is not set")
                  /\ outcome.error.statusCode = Undef

C3_Witness ==
  /\ Settled
  /\ PAPERLESS_URL # "" /\ PAPERLESS_TOKEN = ""
  /\ IsClassified(outcome)
  /\ fetchCount = 0

\* C4: the configuration error names every missing setting and no setting
\* that is present.
C4_NamesExactlyTheMissing ==
  (Settled /\ ConfigMissing /\ outcome.kind = "throw") =>
    /\ Includes(outcome.error.message, "PAPERLESS_URL") <=> (PAPERLESS_URL = "")
    /\ Includes(outcome.error.message, "PAPERLESS_TOKEN") <=> (PAPERLESS_TOKEN = "")

\* C5: every invocation that passed the Config Guard has issued exactly one
\* fetch by the time it settles.
C5_ExactlyOneFetch ==
  (Settled /\ ~ConfigMissing) => fetchCount = 1

\* C6: a 2xx response with status 204 or with an empty body yields the
\* success sentinel (the read not being cut short by timeout or transport).
C6_EmptyYieldsSentinel ==
  ( /\ Settled
    /\ IsOk(response.status)
    /\ response.status = 204 \/ response.body.kind = "empty"
    /\ response.stream # "errored" )
  => outcome = Returned(SuccessSentinel)

\* C7: an invocation during which the timeout fired ends with the
\* 'Request timed out' error, which has no status code.
C7_TimeoutClassified ==
  (Settled /\ timedOut) =>
    /\ IsClassified(outcome)
    /\ StartsWith(outcome.error.message, "Request timed out")
    /\ outcome.error.statusCode = Undef

\* C8: an error other than a classified one that reaches the catch block
\* is turned into a status-less, body-less PaperlessApiError of one category:
\* timeout by its name, else unreachable by its message, else unknown with
\* the message wrapped; a 2xx body that fails to decode is never returned.
IsTimeoutMessage(m) == StartsWith(m, "Request timed out")
IsUnreachableMessage(m) == StartsWith(m, "Could not connect to Paperless")
IsUnknownMessage(m, cause) == m = "Request failed: " \o cause

C9_QueryOmitsEmpty ==
  fetchCount = 1 =>
    LET params == request.params
        query == sent.query
    IN /\ \A i \in 1..Len(params) :
            (params[i][2] \notin {Undef, Null, Str("")})
              <=> (\E j \in 1..Len(query) : query[j][1] = params[i][1])
       /\ \A j \in 1..Len(query) :
            /\ query[j][2] # ""
            /\ \E i \in 1..Len(params) : params[i][1] = query[j][1]
       /\ \A j, k \in 1..Len(query) : query[j][1] = query[k][1] => j = k
       /\ \A i \in 1..Len(params) :
            /\ params[i][2] = Num(0) =>
                 \E j \in 1..Len(query) : query[j] = <<params[i][1], "0">>
            /\ params[i][2] = Bool(FALSE) =>
                 \E j \in 1..Len(query) : query[j] = <<params[i][1], "false">>

C9_Witness ==
  /\ fetchCount = 1
  /\ \E i \in 1..Len(request.params) : request.params[i][2] = Str("")
  /\ \E j \in 1..Len(sent.query) : sent.query[j][2] = "0"

\* C10: no built mapping holds a key whose value is undefined, null or "",
\* and an input field that is undefined or "" leaves its key out.
C10_NoEmptyKeys ==
  /\ \A i \in 1..Len(apiParams) : apiParams[i][2] \notin {Undef, Null, Str("")}
  /\ tool.name = "paperless_search_documents" =>
       /\ tool.params.query \in {Undef, Str("")} => ~HasKey(apiParams, "query")
       /\ tool.params.correspondent_id = Undef => ~HasKey(apiParams, "correspondent__id")
       /\ tool.params.document_type_id = Undef => ~HasKey(apiParams, "document_type__id")
       /\ tool.params.tag_ids = Undef => ~HasKey(apiParams, "tags__id__all")
       /\ tool.params.created_after = Undef => ~HasKey(apiParams, "created__date__gt")
       /\ tool.params.created_before = Undef => ~HasKey(apiParams, "created__date__lt")
  /\ tool.name \in ListTools =>
       (tool.params.search \in {Undef, Str("")} => ~HasKey(apiParams, "name__icontains"))

\* The names of the headers of a request, and the value sent under a name.
HeaderNames(headers) == { headers[i][1] : i \in 1..Len(headers) }
HeaderValues(headers, name) ==
  { headers[i][2] : i \in { j \in 1..Len(headers) : headers[j][1] = name } }

\* C11: every request handed to fetch carries Authorization
\* "Token <credential>" and Accept "application/json"; it has no Content-Type
\* exactly when the multipart form data is the payload, and Content-Type
\* "application/json" otherwise; when form data is supplied it is the payload
\* sent, whether or not a body is supplied too.
C11_RequestHeaders ==
  fetchCount = 1 =>
    /\ HeaderValues(sent.headers, "Authorization") = {"Token " \o PAPERLESS_TOKEN}
    /\ PAPERLESS_TOKEN # ""
    /\ HeaderValues(sent.headers, "Accept") = {"application/json"}
    /\ ("Content-Type" \notin HeaderNames(sent.headers)) <=> (sent.body = MultipartPayload)
    /\ sent.body # MultipartPayload =>
         HeaderValues(sent.headers, "Content-Type") = {"application/json"}
    /\ request.formData => sent.body = MultipartPayload
    /\ ~request.formData =>
         sent.body = (IF request.body = Undef THEN Undef
                      ELSE Str(JSONstringify(request.body)))

C11_Witness ==
  /\ fetchCount = 1
  /\ request.formData
  /\ request.body # Undef
  /\ sent.body = MultipartPayload
  /\ "Content-Type" \notin HeaderNames(sent.headers)

\* The formatHttpError application of the state has been evaluated.
Classified == classified.result # Pending

\* C14: the classifier is total: for every status and every body,
\* formatHttpError returns a string and does not throw.
C14_ClassifierTotal ==
  Classified =>
    /\ classified.result.kind = "return"
    /\ classified.result.value.t = "string"

\* C12: the message for status 401 is the same for any two bodies: the
\* classification of 401 with the body of this state equals the
\* classification of 401 with every other body, so no server text reaches it.
C12_AuthMessageIgnoresBody ==
  (Classified /\ classified.status = 401) =>
    \A b2 \in ClassifierBodies : formatHttpError(401, b2) = classified.result

\* C13: for status 404, 413 and 429 the result of the classification
\* depends on the status only: whatever the body, it is the result obtained
\* for every other body.
C13_FixedMessages ==
  (Classified /\ classified.status \in {404, 413, 429}) =>
    \A b2 \in ClassifierBodies :
      formatHttpError(classified.status, b2) = classified.result

\* What the body of an error response denotes: the value a JSON text
\* encodes, the body itself otherwise.
DenotedBody(body) ==
  IF body.t = "string" /\ JSONparse(body.s).ok THEN JSONparse(body.s).v ELSE body

\* The string and list fields of a value other than the three known keys,
\* each rendered as "field: value".
RemainingFields(e) ==
  LET fields == Entries(e)
      kept == { i \in 1..Len(fields) :
                  /\ fields[i][1] \notin {"detail", "error", "non_field_errors"}
                  /\ fields[i][2].t \in {"string", "array"} }
      Rank(i) == Cardinality({ j \in kept : j <= i })
  IN [k \in 1..Cardinality(kept) |->
        LET i == CHOOSE j \in kept : Rank(j) = k
        IN fields[i][1] \o ": "
           \o (IF fields[i][2].t = "array" THEN Join(fields[i][2].a, ", ")
               ELSE fields[i][2].s)]

\* C15: the detail extracted from a body is the first of: a non-empty
\* detail; a non-empty error; a non-empty non_field_errors list joined by
\* ", "; the remaining string and list fields as "field: value" joined by
\* "; "; the raw serialization of the body; and it is "Unknown error" when
\* the body is empty or absent.  No later shape is used when an earlier one
\* is present and non-empty.
C15_DetailPriority ==
  Classified =>
    LET body == classified.body
        e == DenotedBody(body)
        nfe == Get(e, "non_field_errors")
        expected ==
          IF ~Truthy(body) THEN Str("Unknown error")
          ELSE IF body.t = "string" /\ ~JSONparse(body.s).ok THEN body
          ELSE IF Truthy(Get(e, "detail")) THEN Get(e, "detail")
          ELSE IF Truthy(Get(e, "error")) THEN Get(e, "error")
          ELSE IF nfe.t = "array" /\ nfe.a # <<>> THEN Str(Join(nfe.a, ", "))
          ELSE IF RemainingFields(e) # <<>>
               THEN Str(JoinStrings(RemainingFields(e), "; "))
          ELSE Str(JSONstringify(e))
    IN classified.detail = Returned(expected)

\* C16: every status from 500 to 599 is classified as a server failure:
\* the message names the status and suggests retrying later.
C16_Every5xxIsServerFailure ==
  (Classified /\ classified.status \in 500..599) =>
    /\ classified.result.kind = "return"
    /\ LET message == JsString(classified.result.value)
       IN /\ Includes(message, "server error")
          /\ Includes(message, "HTTP " \o NumToStr(classified.status))
          /\ Includes(message, "try again later")

\* The tools that build a mapping for a search or listing request.
PagedTools ==
  {"paperless_search_documents", "paperless_execute_saved_view"} \cup ListTools

\* A page_size argument that is given and is not an integer of 1..100.
OutsidePageSizeRange(v) ==
  v # Undef /\ (v.t # "number" \/ v.n < 1 \/ v.n > 100)

\* C17: every mapping a search, saved-view or list handler built holds
\* page >= 1 and 1 <= page_size <= 100, with 1 and 25 where the argument
\* was left out; and a call whose page_size is outside 1..100 issues no
\* request and builds no mapping.
C17_PagingBounds ==
  /\ (tool.name \in PagedTools /\ apiParams # <<>>) =>
       LET page == Get(Obj(apiParams), "page")
           page_size == Get(Obj(apiParams), "page_size")
       IN /\ page.t = "number" /\ page.n >= 1
          /\ page_size.t = "number" /\ page_size.n >= 1 /\ page_size.n <= 100
          /\ tool.input.paging[1] = Undef => page.n = 1
          /\ tool.input.paging[2] = Undef => page_size.n = 25
          /\ tool.input.paging[1] # Undef => page = tool.input.paging[1]
          /\ tool.input.paging[2] # Undef => page_size = tool.input.paging[2]
  /\ (tool.name \in PagedTools \cup {"rejected"}
        /\ OutsidePageSizeRange(tool.input.paging[2])) =>
       /\ tool.name = "rejected"
       /\ fetchCount = 0
       /\ pc = "idle"
       /\ sent = NoFetch
       /\ apiParams = <<>>
  /\ (tool.name \in PagedTools /\ fetchCount = 1 /\ apiParams # <<>>) =>
       \E i, j \in 1..Len(sent.query) :
         /\ sent.query[i] = <<"page", JsString(Get(Obj(apiParams), "page"))>>
         /\ sent.query[j] = <<"page_size", JsString(Get(Obj(apiParams), "page_size"))>>

C17_Witness ==
  /\ tool.name \in ListTools
  /\ tool.input.paging = <<Undef, Undef>>
  /\ fetchCount = 1
  /\ \E i \in 1..Len(sent.query) : sent.query[i] = <<"page_size", "25">>

\* The saved-view handler has compiled the mapping from the fetched view.
Compiled == tool.name = "paperless_execute_saved_view" /\ apiParams # <<>>

\* The view's sort_field is set: neither missing, null nor empty.
SortFieldSet(v) == Get(v, "sort_field") \notin {Undef, Null, Str("")}

\* C18: the mapping compiled from a saved view holds
\* ordering = (sort_reverse ? "-" : "") + sort_field exactly when the view's
\* sort_field is set, and no ordering key otherwise.
C18_SortOrdering ==
  Compiled =>
    IF SortFieldSet(view)
    THEN Get(Obj(apiParams), "ordering")
           = Str((IF Get(view, "sort_reverse") = Bool(TRUE) THEN "-" ELSE "")
                 \o Get(view, "sort_field").s)
    ELSE ~HasKey(apiParams, "ordering")

C18_Witness ==
  /\ Compiled
  /\ Get(view, "sort_field") = Str("created")
  /\ Get(view, "sort_reverse") = Bool(TRUE)
  /\ Get(Obj(apiParams), "ordering") = Str("-created")
  /\ fetchCount = 1

\* The query parameter a recognised rule type stands for ("" for the rest).
RuleParameter(ruleType) ==
  CASE ruleType = Num(0) -> "title__icontains"
    [] ruleType = Num(3) -> "correspondent__id"
    [] ruleType = Num(4) -> "document_type__id"
    [] ruleType = Num(6) -> "tags__id__all"
    [] ruleType = Num(17) -> "created__date__gt"
    [] ruleType = Num(18) -> "created__date__lt"
    [] OTHER -> ""

\* A rule that takes effect: recognised type and a value that is not null.
Effective(rule) ==
  RuleParameter(Get(rule, "rule_type")) # "" /\ Get(rule, "value") # Null

Keys(m) == { m[i][1] : i \in 1..Len(m) }

\* C19: the key set of the compiled mapping is exactly page and page_size,
\* plus ordering if the sort field is set, plus the parameter of each
\* recognised rule type that occurs with a non-null value; each key occurs
\* once.
C19_CompiledKeySet ==
  hpc = "compiled" =>
    LET rules == SavedViewRules(view)
    IN /\ Keys(apiParams)
            = {"page", "page_size"}
              \cup (IF SortFieldSet(view) THEN {"ordering"} ELSE {})
              \cup { RuleParameter(Get(rules[i], "rule_type")) :
                       i \in { j \in 1..Len(rules) : Effective(rules[j]) } }
       /\ Cardinality(Keys(apiParams)) = Len(apiParams)
       /\ (SortFieldSet(view) /\ rules = <<>>) =>
            Keys(apiParams) = {"page", "page_size", "ordering"}

C19_Witness ==
  /\ hpc = "compiled"
  /\ Len(SavedViewRules(view)) = 2
  /\ \E i, j \in 1..2 :
       /\ Effective(SavedViewRules(view)[i])
       /\ ~Effective(SavedViewRules(view)[j])
  /\ Cardinality(Keys(apiParams)) = 4

\* The two mappings agree on every key other than `key`.
SameExcept(m1, m2, key) ==
  \A k \in (Keys(m1) \cup Keys(m2)) \ {key} :
    /\ k \in Keys(m1) <=> k \in Keys(m2)
    /\ Get(Obj(m1), k) = Get(Obj(m2), k)

\* C20: one iteration of the rule loop, for a rule with a recognised type
\* and a non-null value, sets the parameter of that type to the rule's value
\* and leaves every other key as it was; for a rule with a null value or an
\* unrecognised type it leaves the whole mapping as it was.
C20_RuleEffect ==
  [][ (hpc = "rules" /\ ruleIndex' = ruleIndex + 1) =>
        LET rule == SavedViewRules(view)[ruleIndex + 1]
            key == RuleParameter(Get(rule, "rule_type"))
        IN IF Effective(rule)
           THEN /\ key \in Keys(apiParams')
                /\ Get(Obj(apiParams'), key) = Get(rule, "value")
                /\ SameExcept(apiParams, apiParams', key)
                /\ Cardinality(Keys(apiParams')) = Len(apiParams')
           ELSE apiParams' = apiParams ]_vars

C20_Witness ==
  /\ hpc = "rules"
  /\ ruleIndex = 2
  /\ Effective(SavedViewRules(view)[1])
  /\ Effective(SavedViewRules(view)[2])
  /\ Get(SavedViewRules(view)[1], "rule_type") # Get(SavedViewRules(view)[2], "rule_type")
  /\ Get(Obj(apiParams), RuleParameter(Get(SavedViewRules(view)[1], "rule_type")))
       = Get(SavedViewRules(view)[1], "value")
  /\ Get(Obj(apiParams), RuleParameter(Get(SavedViewRules(view)[2], "rule_type")))
       = Get(SavedViewRules(view)[2], "value")

RecognisedParameters ==
  { "title__icontains", "correspondent__id", "document_type__id", "tags__id__all",
    "created__date__gt", "created__date__lt" }

\* The positions of the rules that write `key`, in stored order.
Writers(rules, key) ==
  { i \in 1..Len(rules) :
      Effective(rules[i]) /\ RuleParameter(Get(rules[i], "rule_type")) = key }

Max(S) == CHOOSE x \in S : \A y \in S : y <= x

\* The values the query string of a request carries under `key`.
QueryValues(query, key) ==
  { query[i][2] : i \in { j \in 1..Len(query) : query[j][1] = key } }

\* C21: for every recognised parameter, the documents request carries the
\* value of the last rule in stored order that has the parameter's type and
\* a non-null value: the mapping holds that value, the query string holds
\* it once (and nothing for the parameter when that value is the empty
\* string), and no earlier rule of the type shows in the request.
C21_LastWriteWins ==
  (hpc = "await_docs" /\ fetchCount = 1) =>
    \A key \in RecognisedParameters :
      LET rules == SavedViewRules(view)
          writers == Writers(rules, key)
      IN IF writers = {}
         THEN key \notin Keys(apiParams) /\ QueryValues(sent.query, key) = {}
         ELSE LET last == Get(rules[Max(writers)], "value")
              IN /\ Get(Obj(apiParams), key) = last
                 /\ Cardinality({ i \in 1..Len(apiParams) : apiParams[i][1] = key }) = 1
                 /\ QueryValues(sent.query, key)
                      = (IF last = Str("") THEN {} ELSE {JsString(last)})
                 /\ Cardinality({ i \in 1..Len(sent.query) : sent.query[i][1] = key }) <= 1

C21_Witness ==
  /\ hpc = "await_docs"
  /\ fetchCount = 1
  /\ Len(SavedViewRules(view)) = 2
  /\ SavedViewRules(view)[1] = Rule(0, Str("5"))
  /\ SavedViewRules(view)[2] = Rule(0, Str(""))
  /\ Get(Obj(apiParams), "title__icontains") = Str("")
  /\ QueryValues(sent.query, "title__icontains") = {}

\* A view as the claim describes it: sort_field null or a string, and
\* filter_rules absent or a list of rules with an integer rule_type and a
\* value that is a string or null.
WellTypedRule(rule) ==
  /\ rule.t = "object"
  /\ Get(rule, "rule_type").t = "number"
  /\ Get(rule, "value").t \in {"string", "null"}

WellTypedView(v) ==
  /\ v.t = "object"
  /\ Get(v, "sort_field").t \in {"string", "null"}
  /\ Get(v, "filter_rules").t \in {"array", "undefined"}
  /\ Get(v, "filter_rules").t = "array" =>
       \A i \in 1..Len(Get(v, "filter_rules").a) :
         WellTypedRule(Get(v, "filter_rules").a[i])

\* C22: compiling a well-typed view never raises: no step of the
\* compilation throws, the rule loop stays within the rules (so that the
\* step open in each position is a step of the compilation), and what is
\* compiled and sent is a mapping holding page and page_size.
C22_CompileNeverRaises ==
  WellTypedView(view) =>
    /\ hpc # "returned"
    /\ ~ENABLED CompileThrows
    /\ hpc = "rules" => ruleIndex <= Len(SavedViewRules(view))
    /\ hpc \in {"rules", "compiled", "await_docs"} =>
         {"page", "page_size"} \subseteq Keys(apiParams)

C22_Witness ==
  /\ WellTypedView(view)
  /\ hpc = "compiled"
  /\ Len(SavedViewRules(view)) = 2
  /\ Get(SavedViewRules(view)[1], "rule_type") = Num(999)
  /\ Get(SavedViewRules(view)[2], "value") = Null
  /\ Keys(apiParams) = {"page", "page_size"}

\* The rules of a list that have the given type, in stored order.
RECURSIVE RulesOfType(_, _)
RulesOfType(rules, ruleType) ==
  IF rules = <<>> THEN <<>>
  ELSE (IF Get(Head(rules), "rule_type") = Num(ruleType) THEN <<Head(rules)>> ELSE <<>>)
       \o RulesOfType(Tail(rules), ruleType)

\* The number a string of one digit denotes.
DigitValue(s) == CHOOSE n \in 0..9 : NatToStr(n) = s

\* A view whose conditions a direct document search can express: every rule
\* is a correspondent, document type, all-tags, created-after or
\* created-before condition with a value, with at most one of each kind
\* except the tags.
Expressible(v) ==
  LET rules == SavedViewRules(v)
  IN /\ WellTypedView(v)
     /\ \A i \in 1..Len(rules) :
          /\ Get(rules[i], "rule_type") \in {Num(3), Num(4), Num(6), Num(17), Num(18)}
          /\ Get(rules[i], "value") \notin {Null, Str("")}
     /\ \A ruleType \in {3, 4, 17, 18} : Len(RulesOfType(rules, ruleType)) <= 1

\* The validated input of paperless_search_documents that asks for the
\* documents of the view: the same conditions, the view's sort (the
\* schema's default ordering when the view has none), the same paging.
EquivalentSearch(v, paging) ==
  LET rules == SavedViewRules(v)
      One(ruleType) == IF RulesOfType(rules, ruleType) = <<>> THEN Undef
                       ELSE Get(RulesOfType(rules, ruleType)[1], "value")
      Id(ruleType) == IF One(ruleType) = Undef THEN Undef
                      ELSE Num(DigitValue(One(ruleType).s))
      tags == RulesOfType(rules, 6)
  IN [ query |-> Undef,
       correspondent_id |-> Id(3),
       document_type_id |-> Id(4),
       tag_ids |-> IF tags = <<>> THEN Undef
                   ELSE Arr([i \in 1..Len(tags) |-> Num(DigitValue(Get(tags[i], "value").s))]),
       created_after |-> One(17),
       created_before |-> One(18),
       ordering |-> IF SortFieldSet(v)
                    THEN Str((IF Get(v, "sort_reverse") = Bool(TRUE) THEN "-" ELSE "")
                             \o Get(v, "sort_field").s)
                    ELSE Str("-created"),
       paging |-> paging ]

\* A mapping as the set of its keys with the values rendered as the query
\* string renders them.
Rendered(m) == { <<m[i][1], JsString(m[i][2])>> : i \in 1..Len(m) }

\* C23: for every view a direct search can express, the compiled mapping has
\* the keys and values of the mapping the search handler builds for the
\* equivalent search input with the same page and page_size.
C23_EquivalentToSearch ==
  (hpc = "compiled" /\ Expressible(view)) =>
    Rendered(apiParams) = Rendered(SearchParams(EquivalentSearch(view, tool.params.paging)))

\* The statuses whose message embeds the detail extracted from the body.
EmbedsDetail(status) ==
  status \notin {401, 404, 413, 429, 500, 502, 503, 504}

\* C27: when a non-2xx response whose body is not JSON has been read, the
\* error raised keeps the body text: responseBody is the text, and for the
\* statuses that embed the detail the message holds the text and not
\* "Unknown error".
C27_TextBodyKept ==
  (Settled /\ response.status # 0 /\ ~IsOk(response.status)
     /\ response.body.kind = "text" /\ response.stream = "read") =>
    /\ outcome.kind = "throw"
    /\ outcome.error.responseBody = Str(response.body.text)
    /\ EmbedsDetail(response.status) =>
         /\ Includes(outcome.error.message, response.body.text)
         /\ ~Includes(outcome.error.message, "Unknown error")

SavedViewTool == tool.name = "paperless_execute_saved_view"

IsDocumentsQuery(f) == f.url = PAPERLESS_URL \o "/api/documents/"

\* C28: paperless_execute_saved_view is a two-step sequence.  A documents
\* query is issued only in the step that takes the successfully returned
\* saved view, and with the mapping compiled from that view; while the view
\* is awaited nothing is compiled; and when the view fetch failed the
\* handler returns that error without a documents query.
C28_TwoStepSequence ==
  /\ [](SavedViewTool =>
         /\ hpc = "await_view" =>
              /\ view = Undef /\ apiParams = <<>>
              /\ ~IsDocumentsQuery(sent)
         /\ hpc = "await_docs" =>
              /\ view # Undef
              /\ apiParams = SavedViewParams(tool.params, view)
              /\ IsDocumentsQuery(sent)
              /\ sent.query = BuildQuery(apiParams)
         /\ (hpc = "returned" /\ view = Undef) =>
              /\ outcome.kind = "throw"
              /\ toolResult = [kind |-> "error", text |-> "Error: " \o outcome.error.message]
              /\ apiParams = <<>>
              /\ ~IsDocumentsQuery(sent))
  /\ [][ (SavedViewTool /\ sent' # sent /\ IsDocumentsQuery(sent')) =>
           /\ hpc = "await_view" /\ pc = "done"
           /\ IsSavedViewEndpoint(sent.url)
           /\ outcome.kind = "return"
           /\ view' = outcome.value ]_vars

C28_Witness ==
  /\ SavedViewTool
  /\ hpc = "returned"
  /\ view = Undef
  /\ fetchCount = 1
  /\ response.status = 404
  /\ IsSavedViewEndpoint(sent.url)
  /\ toolResult.kind = "error"

(***************************************************************************)
(* Tool results.                                                           *)
(***************************************************************************)
HandlerTools ==
  PagedTools \cup {"paperless_delete_document", "paperless_get_document_download_url"}

\* The texts by which a handler reports data or success.
LooksLikeSuccess(text) ==
  \/ StartsWith(text, "## Results")
  \/ StartsWith(text, "**Download URL:**")
  \/ StartsWith(text, "Document #")

\* C29: no tool handler throws and no failure looks like success.  A handler
\* whose apiRequest settled takes its next step (for the saved-view handler,
\* the fetched view compiles or the fetch has failed); what a handler
\* returns is a content result (a text); and when the last apiRequest of the
\* invocation raised, the text is "Error: " followed by that error's message
\* and carries no results, download URL or confirmation.
C29_FailureNeverLooksLikeSuccess ==
  /\ (hpc \in {"await", "await_docs"} /\ pc = "done") => ENABLED HandlerReturns
  /\ (hpc \in {"await_delete", "await_exists"} /\ pc = "done") =>
       ENABLED DocumentHandlerReturns
  /\ (hpc = "await_view" /\ pc = "done") =>
       outcome.kind = "throw" \/ ~ReadThrows(outcome.value)
  /\ (hpc = "returned" /\ tool.name \in HandlerTools) =>
       /\ toolResult.kind \in {"ok", "error"}
       /\ toolResult.text # ""
       /\ outcome.kind \in {"return", "throw"}
       /\ outcome.kind = "throw" =>
            /\ toolResult = [kind |-> "error", text |-> "Error: " \o outcome.error.message]
            /\ ~LooksLikeSuccess(toolResult.text)

\* A delete whose request the remote refused has returned its error text.
C29_Witness ==
  /\ hpc = "returned"
  /\ tool.name = "paperless_delete_document"
  /\ fetchCount = 1
  /\ response.status = 401
  /\ outcome.kind = "throw"
  /\ toolResult.kind = "error"

(***************************************************************************)
(* Configuration status.                                                   *)
(***************************************************************************)
HealthServed == tool.name = "health" /\ hpc = "returned"

\* C25: missing configuration is not fatal but blocks every data call.  An
\* idle process serves /health and tool calls whatever its configuration;
\* /health answers 503 "unhealthy" exactly when the base URL or the token is
\* empty and 200 "healthy" otherwise; while a setting is empty no fetch is
\* issued, every apiRequest settles with the Config Guard's error and every
\* tool returns that error; and no step changes the configuration.
C25_MissingConfigNotFatal ==
  /\ [](/\ hpc = "idle" =>
             /\ ENABLED Health
             /\ ENABLED ApiRequest
             /\ ENABLED SearchDocuments
             /\ ENABLED DeleteDocument
        /\ HealthServed =>
             /\ ConfigMissing <=> /\ toolResult.status = 503
                                  /\ Includes(toolResult.text, "\"status\":\"unhealthy\"")
             /\ ~ConfigMissing <=> /\ toolResult.status = 200
                                   /\ Includes(toolResult.text, "\"status\":\"healthy\"")
        /\ ConfigMissing =>
             /\ fetchCount = 0
             /\ pc \in {"idle", "done"}
             /\ pc = "done" => outcome = validateConfig
             /\ (hpc = "returned" /\ tool.name \in HandlerTools) =>
                  toolResult = [kind |-> "error",
                                text |-> "Error: " \o validateConfig.error.message])
  /\ [][UNCHANGED config]_vars

\* A process started without a token has answered /health.
C25_Witness ==
  /\ HealthServed
  /\ PAPERLESS_URL # ""
  /\ PAPERLESS_TOKEN = ""
  /\ toolResult.status = 503

(***************************************************************************)
(* The credential.                                                         *)
(***************************************************************************)
\* Every text the process has produced for a caller, an operator or a log.
ErrorMessages == IF outcome.kind = "throw" THEN {outcome.error.message} ELSE {}
ToolOutput == IF toolResult.kind = "none" THEN {} ELSE {toolResult.text}
LogLines == { log[i] : i \in DOMAIN log }
StdoutLines == { stdout[i] : i \in DOMAIN stdout }
ProducedTexts == ErrorMessages \cup ToolOutput \cup LogLines \cup StdoutLines

\* The texts of a fetch call outside its headers.
FetchTexts ==
  {sent.url}
  \cup { sent.query[i][1] : i \in DOMAIN sent.query }
  \cup { sent.query[i][2] : i \in DOMAIN sent.query }
  \cup (IF sent.body = Undef THEN {} ELSE {sent.body.s})

UpdateFieldKeys ==
  { <<"title", "title", FALSE>>,
    <<"correspondent_id", "correspondent", TRUE>>,
    <<"document_type_id", "document_type", TRUE>>,
    <<"tag_ids", "tags", FALSE>>,
    <<"archive_serial_number", "archive_serial_number", TRUE>>,
    <<"created", "created", FALSE>>,
    <<"custom_fields", "custom_fields", FALSE>> }

UpdateStarted == tool.name = "paperless_update_document" /\ hpc \in {"await_update", "returned"}

\* C26: the update handler sends exactly the specified fields.  With no
\* field specified it returns an error text and issues no call; otherwise
\* the PATCH payload has a key for a field exactly when the input specifies
\* it (custom_fields included), holding the input's value, with ID 0 as null.
C26_UpdateSendsSpecifiedFields ==
  UpdateStarted =>
    IF NoUpdateField(tool.params)
    THEN /\ hpc = "returned"
         /\ StartsWith(toolResult.text, "Error: At least one field")
         /\ request = NoRequest
         /\ fetchCount = 0
    ELSE /\ request.method = "PATCH"
         /\ request.body.t = "object"
         /\ \A k \in UpdateFieldKeys :
              LET given == tool.params[k[1]]
              IN /\ HasKey(request.body.f, k[2]) <=> given # Undef
                 /\ given # Undef =>
                      Get(request.body, k[2]) = IF k[3] /\ given = Num(0) THEN Null ELSE given

(***************************************************************************)
(* Concurrent invocations.                                                 *)
(***************************************************************************)
\* The locals of invocation i, running or suspended.
LocalsOf(i) == IF i = running THEN Locals ELSE frames[i]

\* The settlement that the configuration, the URL, and the response or
\* failure of the invocation's own fetch prescribe.
Determined(f) ==
  IF validateConfig.kind = "throw" THEN validateConfig
  ELSE IF f.fetchCount = 0 THEN Thrown(JsError("TypeError", "Invalid URL"))
  ELSE IF f.timedOut \/ f.response = NoResponse THEN CatchBlock(f.caught)
  ELSE IF ~IsOk(f.response.status)
  THEN CatchBlock(HttpErrorThrown(f.response,
                                  ErrorBodyOf(ResponseJson(f.response), f.response)))
  ELSE IF f.response.status = 204 \/ f.response.contentLength = Str("0")
  THEN Returned(SuccessSentinel)
  ELSE IF ResponseJson(f.response).kind = "return" THEN ResponseJson(f.response)
  ELSE CatchBlock(ResponseJson(f.response).error)

====
